---- MODULE Spec2Model ----
(***************************************************************************)
(* Conversation-memory pipeline and completion handlers of terminal-ai-api *)
(* (src/api/index.ts and the edge variant src/unnamed/part_004).           *)
(*                                                                         *)
(* Strings are sequences of one-character strings, so that String.split,   *)
(* Array.join, template literals and parseInt are computed character by    *)
(* character as the JavaScript does.                                       *)
(***************************************************************************)
EXTENDS Integers, Sequences, FiniteSets, TLC

VARIABLES
    ctText,          \* chunkText: argument `text`
    ctMaxChunkSize,  \* chunkText: argument `maxChunkSize`
    ctChunks,        \* chunkText: returned array `chunks`
    ctPc,            \* "call" before the call, "returned" after it
    clock,           \* the value Date.now() returns
    store,           \* the "conversations" namespace of the index: id -> metadata
    save,            \* the saveConversation calls, one record per call
    hist,            \* the latest getConversationHistory call and its result
    hVariant,        \* the handler that serves the request
    hEnv,            \* process.env: which keys are set
    hReq,            \* the request: method and parsed body
    hPc,             \* the await the handler is suspended at
    hInitialized,    \* pineconeInitialized
    hConversationId, \* conversationId
    hHistory,        \* history
    hOutbound,       \* what the completion request was built from
    hTimer,          \* the setTimeout that aborts the completion call
    hFetch,          \* the completion call
    hFetchCalls,     \* completion calls issued
    hStatus,         \* response.status of the completion call
    hResponse,       \* the response sent to the caller
    hSave,           \* the saveConversation call of the request
    hEmail,          \* sendFailureEmail calls and resend.emails.send calls
    hQuery,          \* the getConversationHistory call of the request
    hInitCalls,      \* index listing calls made by initPinecone for the request
    ip,              \* the initPinecone call of the edge handler
    call             \* a direct call of a function: its name, arguments, result

chunkVars == <<ctText, ctMaxChunkSize, ctChunks, ctPc>>
storeVars == <<clock, store, save, hist>>
handlerVars == <<hVariant, hEnv, hReq, hPc, hInitialized, hConversationId,
                 hHistory, hOutbound, hTimer, hFetch, hFetchCalls, hStatus,
                 hResponse, hSave, hEmail, hQuery, hInitCalls>>

initVars == <<ip>>

callVars == <<call>>

vars == <<chunkVars, storeVars, handlerVars, initVars, callVars>>

-----------------------------------------------------------------------------
(* Bounds of the model *)

\* longest input text given to a direct chunkText call
MaxTextLen == 6
\* largest maxChunkSize given to a direct chunkText call (smallest is 1)
MaxChunkArg == 4
\* longest history given to a direct createChatSystemPrompt call
MaxHistoryLen == 11
\* most matches given to a direct getConversationHistory reconstruction
MaxMatches == 3
\* longest text given to a direct generateEmbedding call
MaxEmbedLen == 6

-----------------------------------------------------------------------------
(* Characters and strings *)

NL == "\n"
SP == " "

\* the characters texts are drawn from: a letter, a sentence end, the two
\* kinds of whitespace
Alphabet == {"a", ".", SP, NL}

\* JavaScript \s restricted to the alphabet
IsSpace(c) == c \in {SP, NL, "\t", "\r"}

\* the character class [.!?]
IsSentenceEnd(c) == c \in {".", "!", "?"}

SeqsUpTo(S, n) == UNION {[1..k -> S] : k \in 0..n}

\* Array.prototype.join
RECURSIVE Join(_, _)
Join(parts, sep) ==
    IF parts = <<>> THEN <<>>
    ELSE IF Len(parts) = 1 THEN parts[1]
    ELSE parts[1] \o sep \o Join(Tail(parts), sep)

\* first index >= q of s that does not hold a character satisfying the run
RECURSIVE NewlineRunEnd(_, _)
NewlineRunEnd(s, q) ==
    IF q <= Len(s) /\ s[q] = NL THEN NewlineRunEnd(s, q + 1) ELSE q

RECURSIVE SpaceRunEnd(_, _)
SpaceRunEnd(s, q) ==
    IF q <= Len(s) /\ IsSpace(s[q]) THEN SpaceRunEnd(s, q + 1) ELSE q

\* text.split(/\n\n+/): p is the end of the last separator, q the position
\* the sticky match is tried at
RECURSIVE SplitSectionsFrom(_, _, _, _)
SplitSectionsFrom(s, p, q, acc) ==
    IF q > Len(s) THEN Append(acc, SubSeq(s, p, Len(s)))
    ELSE IF s[q] = NL /\ q + 1 <= Len(s) /\ s[q + 1] = NL
         THEN LET e == NewlineRunEnd(s, q)
              IN  SplitSectionsFrom(s, e, e, Append(acc, SubSeq(s, p, q - 1)))
         ELSE SplitSectionsFrom(s, p, q + 1, acc)

SplitSections(s) == SplitSectionsFrom(s, 1, 1, <<>>)

\* section.split(/(?<=[.!?])\s+/)
RECURSIVE SplitSentencesFrom(_, _, _, _)
SplitSentencesFrom(s, p, q, acc) ==
    IF q > Len(s) THEN Append(acc, SubSeq(s, p, Len(s)))
    ELSE IF q > 1 /\ IsSentenceEnd(s[q - 1]) /\ IsSpace(s[q])
         THEN LET e == SpaceRunEnd(s, q)
              IN  SplitSentencesFrom(s, e, e, Append(acc, SubSeq(s, p, q - 1)))
         ELSE SplitSentencesFrom(s, p, q + 1, acc)

SplitSentences(s) == SplitSentencesFrom(s, 1, 1, <<>>)

-----------------------------------------------------------------------------
(* chunkText *)

\* the inner loop over the sentences of an oversized section; the result is
\* the array `chunks` after the loop and the trailing push of sectionChunk
RECURSIVE SentenceLoop(_, _, _, _, _)
SentenceLoop(sentences, i, chunks, sectionChunk, maxChunkSize) ==
    IF i > Len(sentences)
    THEN IF sectionChunk # <<>> THEN Append(chunks, sectionChunk) ELSE chunks
    ELSE LET sentence == sentences[i] IN
         IF Len(sectionChunk \o sentence) <= maxChunkSize
         THEN SentenceLoop(sentences, i + 1, chunks,
                  sectionChunk \o (IF sectionChunk # <<>> THEN <<SP>> ELSE <<>>)
                               \o sentence,
                  maxChunkSize)
         ELSE SentenceLoop(sentences, i + 1,
                  IF sectionChunk # <<>> THEN Append(chunks, sectionChunk)
                                         ELSE chunks,
                  sentence, maxChunkSize)

\* the value of currentChunk after an oversized section was split by
\* sentences: the code assigns nothing to it on that path
CurrentChunkAfterLargeSection(currentChunk) == currentChunk

\* the outer loop over the sections and the trailing push of currentChunk
RECURSIVE SectionLoop(_, _, _, _, _)
SectionLoop(sections, i, chunks, currentChunk, maxChunkSize) ==
    IF i > Len(sections)
    THEN IF currentChunk # <<>> THEN Append(chunks, currentChunk) ELSE chunks
    ELSE LET section == sections[i] IN
         IF Len(currentChunk \o section) <= maxChunkSize
         THEN SectionLoop(sections, i + 1, chunks,
                  currentChunk \o (IF currentChunk # <<>> THEN <<NL, NL>> ELSE <<>>)
                               \o section,
                  maxChunkSize)
         ELSE LET flushed == IF currentChunk # <<>>
                             THEN Append(chunks, currentChunk) ELSE chunks
              IN  IF Len(section) > maxChunkSize
                  THEN SectionLoop(sections, i + 1,
                           SentenceLoop(SplitSentences(section), 1, flushed,
                                        <<>>, maxChunkSize),
                           CurrentChunkAfterLargeSection(currentChunk),
                           maxChunkSize)
                  ELSE SectionLoop(sections, i + 1, flushed, section,
                                   maxChunkSize)

\* a chunker that emits every section as it is
chunkTextBySection(text, maxChunkSize) == SplitSections(text)

chunkText(text, maxChunkSize) ==
    SectionLoop(SplitSections(text), 1, <<>>, <<>>, maxChunkSize)

-----------------------------------------------------------------------------
(* Numbers in template literals, parseInt, String.split("-") *)

Digits == <<"0", "1", "2", "3", "4", "5", "6", "7", "8", "9">>

IsDigit(c) == \E d \in 1..10 : Digits[d] = c

DigitValue(c) == (CHOOSE d \in 1..10 : Digits[d] = c) - 1

\* `${n}` for a non-negative integer n
RECURSIVE ToStr(_)
ToStr(n) ==
    IF n < 10 THEN <<Digits[n + 1]>>
    ELSE ToStr(n \div 10) \o <<Digits[(n % 10) + 1]>>

\* parseInt(s) for a string that starts with a decimal digit: the value of
\* its longest prefix of digits
RECURSIVE ParseDigitsFrom(_, _, _)
ParseDigitsFrom(s, i, acc) ==
    IF i <= Len(s) /\ IsDigit(s[i])
    THEN ParseDigitsFrom(s, i + 1, acc * 10 + DigitValue(s[i]))
    ELSE acc

parseInt(s) == ParseDigitsFrom(s, 1, 0)

\* s.split(c) for a one-character separator c
RECURSIVE SplitOnFrom(_, _, _, _, _)
SplitOnFrom(s, c, p, q, acc) ==
    IF q > Len(s) THEN Append(acc, SubSeq(s, p, Len(s)))
    ELSE IF s[q] = c
         THEN SplitOnFrom(s, c, q + 1, q + 1, Append(acc, SubSeq(s, p, q - 1)))
         ELSE SplitOnFrom(s, c, p, q + 1, acc)

SplitOn(s, c) == SplitOnFrom(s, c, 1, 1, <<>>)

\* Array.prototype.sort with a comparator (a, b) => key(a) - key(b), on
\* entries [key, val] that carry the compared key: the sort is stable, so x
\* goes after every element whose key is <= its own
RECURSIVE InsertByKey(_, _)
InsertByKey(sorted, x) ==
    IF sorted = <<>> THEN <<x>>
    ELSE IF sorted[Len(sorted)].key <= x.key THEN Append(sorted, x)
    ELSE Append(InsertByKey(SubSeq(sorted, 1, Len(sorted) - 1), x),
                sorted[Len(sorted)])

RECURSIVE SortByKeyFrom(_, _, _)
SortByKeyFrom(s, i, sorted) ==
    IF i > Len(s) THEN sorted
    ELSE SortByKeyFrom(s, i + 1, InsertByKey(sorted, s[i]))

SortByKey(s) ==
    LET sorted == SortByKeyFrom(s, 1, <<>>)
    IN  [k \in 1..Len(sorted) |-> sorted[k].val]

Min(a, b) == IF a <= b THEN a ELSE b

-----------------------------------------------------------------------------
(* Program constants of the conversation store.  The three sizes are 512,  *)
(* 100 and 100 in the source; the model keeps their roles and scales them  *)
(* down so that texts of a few characters give several chunks, a save of   *)
(* five records needs two batches, and a conversation can hold more        *)
(* records than one query returns.                                         *)

\* chunkText's default maxChunkSize (512 in the source)
DefaultMaxChunkSize == 3
\* saveConversation's BATCH_SIZE (100 in the source)
BATCH_SIZE == 4
\* the topK getConversationHistory passes to pineconeQuery (100 in the source)
TopK == 4

ROLE_USER == <<"u", "s", "e", "r">>
ROLE_ASSISTANT == <<"a", "s", "s", "i", "s", "t", "a", "n", "t">>
SOURCE_USER == "user-message"
SOURCE_ASSISTANT == "assistant-message"

-----------------------------------------------------------------------------
(* saveConversation: the records it builds *)

\* the template literal `${conversationId}-${role}-${timestamp}-${i}`
VectorId(conversationId, role, timestamp, i) ==
    conversationId \o <<"-">> \o role \o <<"-">> \o ToStr(timestamp)
                   \o <<"-">> \o ToStr(i)

\* ChunkMetadata with chunkIndex counted from 1
ChunkMetadataFromOne(conversationId, role, source, timestamp, chunks, i) ==
    [conversationId |-> conversationId,
     role           |-> role,
     content        |-> chunks[i + 1],
     timestamp      |-> timestamp,
     chunkIndex     |-> i + 1,
     totalChunks    |-> Len(chunks),
     source         |-> source]

\* the metadata of the record of chunk i (from 0) of the chunks of one role
ChunkMetadata(conversationId, role, source, timestamp, chunks, i) ==
    [conversationId |-> conversationId,
     role           |-> role,
     content        |-> chunks[i + 1],
     timestamp      |-> timestamp,
     chunkIndex     |-> i,
     totalChunks    |-> Len(chunks),
     source         |-> source]

\* one of the two loops that push a record per chunk; `values`, the
\* embedding of the chunk, is left out of the records: nothing in the store
\* operations reads it (the query vector is all zeros)
RoleVectors(conversationId, role, source, timestamp, chunks) ==
    [k \in 1..Len(chunks) |->
        [id       |-> VectorId(conversationId, role, timestamp, k - 1),
         metadata |-> ChunkMetadata(conversationId, role, source, timestamp,
                                    chunks, k - 1)]]

\* the timestamp the assistant records of a save carry
AssistantTimestamp(currentTime) == currentTime + 1

\* the array `vectors` after both loops
BuildVectors(conversationId, userInput, aiResponse, currentTime) ==
    RoleVectors(conversationId, ROLE_USER, SOURCE_USER, currentTime,
                chunkText(userInput, DefaultMaxChunkSize))
    \o RoleVectors(conversationId, ROLE_ASSISTANT, SOURCE_ASSISTANT,
                   AssistantTimestamp(currentTime),
                   chunkText(aiResponse, DefaultMaxChunkSize))

\* a slice that runs one record into the next batch
BatchAtOverlapping(vectors, i) ==
    SubSeq(vectors, i + 1, Min(i + BATCH_SIZE + 1, Len(vectors)))

\* vectors.slice(i, i + BATCH_SIZE), i counted from 0
BatchAt(vectors, i) == SubSeq(vectors, i + 1, Min(i + BATCH_SIZE, Len(vectors)))

\* what the index holds after it accepted an upsert of `batch`: a record of
\* the batch replaces the stored record of the same id
Upsert(st, batch) ==
    LET ids == {batch[k].id : k \in 1..Len(batch)}
        last(id) == CHOOSE k \in 1..Len(batch) :
                        /\ batch[k].id = id
                        /\ \A j \in (k + 1)..Len(batch) : batch[j].id # id
    IN  [id \in (DOMAIN st) \cup ids |->
            IF id \in ids THEN batch[last(id)].metadata ELSE st[id]]

-----------------------------------------------------------------------------
(* getConversationHistory *)

\* the answers the index can give to a query filtered on conversationId:
\* at most topK of the matching records, in an order the index chooses
QueryMatches(st, conversationId, topK) ==
    LET ids == {id \in DOMAIN st : st[id].conversationId = conversationId}
        n   == Min(topK, Cardinality(ids))
    IN  {[k \in 1..n |-> [id |-> f[k], metadata |-> st[f[k]]]] :
            f \in {g \in [1..n -> ids] :
                      \A a, b \in 1..n : a # b => g[a] # g[b]}}

\* the position of `key` in the Map (a sequence of entries in insertion
\* order), 0 when it has no such key
MapIndex(messageMap, key) ==
    IF \E k \in 1..Len(messageMap) : messageMap[k].key = key
    THEN CHOOSE k \in 1..Len(messageMap) : messageMap[k].key = key
    ELSE 0

\* the template literal `${role}-${timestamp}`
MessageKey(metadata) == metadata.role \o <<"-">> \o ToStr(metadata.timestamp)

\* a match without metadata: every field of it reads as undefined
MissingMetadata ==
    [conversationId |-> <<>>, role |-> <<>>, content |-> <<>>,
     timestamp |-> 0, chunkIndex |-> 0, totalChunks |-> 0, source |-> ""]

\* a test that lets a record without content through
IsUsableWithoutContent(metadata) == metadata.role # <<>>

\* the negation of the `continue` condition
\* !match.metadata || !match.metadata.role || !match.metadata.content
IsUsable(metadata) ==
    /\ metadata # MissingMetadata
    /\ metadata.role # <<>>
    /\ metadata.content # <<>>

\* what getConversationHistory gets from pineconeQuery: the matches of the
\* answer, or none when the request failed or was answered non-2xx
pineconeQuery(outcome, matches) ==
    IF outcome = "ok" THEN matches ELSE <<>>

\* the loop that groups the matches by role and timestamp
RECURSIVE GroupMatches(_, _, _)
GroupMatches(matches, i, messageMap) ==
    IF i > Len(matches) THEN messageMap
    ELSE LET metadata == matches[i].metadata IN
         IF ~IsUsable(metadata)
         THEN GroupMatches(matches, i + 1, messageMap)
         ELSE LET key == MessageKey(metadata)
                  at  == MapIndex(messageMap, key)
              IN  IF at = 0
                  THEN GroupMatches(matches, i + 1,
                           Append(messageMap,
                                  [key |-> key, chunks |-> <<metadata>>]))
                  ELSE GroupMatches(matches, i + 1,
                           [messageMap EXCEPT
                               ![at].chunks = Append(@, metadata)])

\* SortChunks without the sort: the chunks stay in arrival order
SortChunksOmitted(chunks) == chunks

\* chunks.sort((a, b) => (a.chunkIndex || 0) - (b.chunkIndex || 0))
SortChunks(chunks) ==
    SortByKey([k \in 1..Len(chunks) |->
                  [key |-> chunks[k].chunkIndex, val |-> chunks[k]]])

\* the message built from one entry of the Map
MessageOf(entry) ==
    LET chunks == SortChunks(entry.chunks)
        parts  == SplitOn(entry.key, "-")
    IN  [role      |-> parts[1],
         content   |-> Join([k \in 1..Len(chunks) |-> chunks[k].content],
                            <<SP>>),
         timestamp |-> parseInt(parts[2])]

\* SortMessages without the sort: the messages stay in Map order
SortMessagesOmitted(messages) == messages

\* messages.sort((a, b) => (a.timestamp || 0) - (b.timestamp || 0))
SortMessages(messages) ==
    SortByKey([k \in 1..Len(messages) |->
                  [key |-> messages[k].timestamp, val |-> messages[k]]])

\* a getConversationHistory that answers no matches with a message
getConversationHistoryNeverEmpty(matches) ==
    <<[role |-> ROLE_USER, content |-> <<"h", "i">>, timestamp |-> 9]>>

\* getConversationHistory on the matches pineconeQuery returned (none when
\* the query failed)
getConversationHistory(matches) ==
    IF matches = <<>> THEN <<>>
    ELSE LET messageMap == GroupMatches(matches, 1, <<>>)
         IN  SortMessages([k \in 1..Len(messageMap) |->
                              MessageOf(messageMap[k])])

-----------------------------------------------------------------------------
(* The state of each component before it is used *)

ChunkIdle ==
    /\ ctText = <<>>
    /\ ctMaxChunkSize = DefaultMaxChunkSize
    /\ ctChunks = <<>>
    /\ ctPc = "idle"

\* the saveConversation calls that can run, one after or during the other
SaveProcs == {"s1", "s2"}

\* conversation ids
ConversationIds == {<<"c", "1">>, <<"c", "2">>}

\* an argument that is not a string (body.prompt and message.content are
\* parsed JSON: a number, an array); text.split is then not a function
NotAString == <<"NotAString">>

IsString(x) == x # NotAString

\* the arguments of the modelled saves.  Call s1 takes the texts that give
\* several chunks (with DefaultMaxChunkSize 3: 1, 3 and 0 chunks for the
\* user, 1 and 2 for the assistant), call s2 a turn of one chunk each in
\* either conversation.
SaveConversationIds(p) ==
    IF p = "s1" THEN {<<"c", "1">>} ELSE ConversationIds

SaveUserInputs(p) ==
    IF p = "s1"
    THEN {<<"h", "i">>,
          <<"l", "s", NL, NL, "c", "a", "t", NL, NL, "p", "s">>,
          <<>>,
          NotAString}
    ELSE {<<"y", "o">>}

SaveAiResponses(p) ==
    IF p = "s1"
    THEN {<<"o", "k">>,
          <<"N", "o", ".", SP, "Y", "e", "s", ".">>,
          <<>>}
    ELSE {<<"o", "h">>}

\* a saveConversation call that has not started
IdleSave ==
    [pc             |-> "idle",
     conversationId |-> <<>>,
     userInput      |-> <<>>,
     aiResponse     |-> <<>>,
     currentTime    |-> 0,
     vectors        |-> <<>>,
     i              |-> 0,
     result         |-> FALSE,
     threw          |-> FALSE,
     upsertFailed   |-> FALSE,
     batches        |-> <<>>,
     after          |-> {}]

\* no getConversationHistory result at hand
NoHist ==
    [pc |-> "none", conversationId |-> <<>>, queryOk |-> FALSE,
     messages |-> <<>>]

\* the first reading of the clock, and how many milliseconds it may advance
ClockStart == 9
MaxTicks == 2

StoreIdle ==
    /\ clock = ClockStart
    /\ store = [id \in {} |-> id]
    /\ save = [p \in SaveProcs |-> IdleSave]
    /\ hist = NoHist

-----------------------------------------------------------------------------
(* initPinecone of the edge handler: the listing and creation calls, the   *)
(* attempt loop and its waits                                              *)

RETRY_ATTEMPTS == 3
RETRY_DELAY == 1000

\* the wait for a created index to initialize
INDEX_WAIT == 30000

\* PINECONE_INDEX_NAME and the names of other indexes of the account
PINECONE_INDEX_NAME == "terminal-ai-conversations"
OtherIndexNames == {"a", "b"}

\* what pineconeListIndexes can return: the names of the account's indexes;
\* a failed listing call is caught and returns the empty array
Listings == SUBSET ({PINECONE_INDEX_NAME} \cup OtherIndexNames)

\* a backoff that does not grow
BackoffDelayFixed(attempt) == RETRY_DELAY

\* setTimeout(resolve, RETRY_DELAY * attempt)
BackoffDelay(attempt) == RETRY_DELAY * attempt

\* pc: the await initPinecone is suspended at; attempt: the loop variable;
\* indexes: the latest listing; listings: the listing of each attempt;
\* outcomes: how each attempt made ended;
\* waits: the delays of the timers awaited so far
NoInitPinecone ==
    [apiKey |-> FALSE, pc |-> "idle", attempt |-> 0, indexes |-> {},
     listFailed |-> FALSE, listings |-> <<>>, outcomes |-> <<>>,
     waits |-> <<>>,
     backoffs |-> <<>>, result |-> FALSE, listCalls |-> 0,
     createCalls |-> 0]

InitPineconeIdle == ip = NoInitPinecone

\* no direct call
NoCall == [fn |-> "", args |-> <<>>, result |-> <<>>, pc |-> "idle"]

CallIdle == call = NoCall

-----------------------------------------------------------------------------
(* The prompt builders.  The fixed text of a template is kept as one       *)
(* element of the content, shortened to its first line; the interpolated   *)
(* values are spelled out.                                                 *)

\* the number of history messages the chat prompt keeps
HISTORY_WINDOW == 10

\* systemMessage
SYSTEM_MESSAGE ==
    [role    |-> ROLE_ASSISTANT,
     content |->
        <<"You are T-AI, a helpful AI assistant operating in a terminal.\nProvide clear, concise, and well-formatted answers.\nUse markdown for formatting, especially for code blocks.\nYou are not a command generator; you are a conversational assistant.">>]

\* history.slice(0, n): the first n messages
SliceFirst(s, n) == SubSeq(s, 1, Min(n, Len(s)))

\* history.slice(-n): the last n messages
SliceLast(s, n) == SubSeq(s, Len(s) - Min(n, Len(s)) + 1, Len(s))

createChatSystemPrompt(userPrompt, history) ==
    LET recent          == SliceLast(history, HISTORY_WINDOW)
        historyMessages == [k \in 1..Len(recent) |->
                               [role    |-> recent[k].role,
                                content |-> recent[k].content]]
    IN  <<SYSTEM_MESSAGE>> \o historyMessages
        \o <<[role |-> ROLE_USER, content |-> userPrompt]>>

\* historyText of createCommandSystemPrompt and createSystemPrompt
HistoryText(history) ==
    IF Len(history) > 0
    THEN <<"Previous conversation:\n">>
         \o Join([k \in 1..Len(history) |->
                     history[k].role \o <<":", SP>> \o history[k].content],
                 <<NL>>)
    ELSE <<"No previous conversation">>

\* createCommandSystemPrompt of src/api/index.ts; historyText is never the
\* empty string, so the "Recent conversation" part is always there
createCommandSystemPrompt(userPrompt, history) ==
    <<"Task: Analyze the user's request, formulate a step-by-step reasoning plan, and then generate a single, valid Windows Command Prompt (CMD) command to accomplish it.\n\nSystem Information:\nCurrent directory: (User's CWD)\nOS: Windows\n\n">>
    \o <<"Recent conversation:\n">> \o HistoryText(history) \o <<NL, NL>>
    \o <<"\n\nUser request: ">> \o userPrompt
    \o <<"\n\nRequirements: ... Your JSON response:">>

\* createSystemPrompt of the edge handler
createSystemPrompt(userPrompt, history) ==
    <<"Task: Generate a valid Windows Command Prompt command or help the user with their request.\nUser request: ">>
    \o userPrompt \o <<NL, NL>> \o HistoryText(history)
    \o <<"\n\nRequirements: ... Your response:">>

-----------------------------------------------------------------------------
(* The completion handlers: error messages, the catch block, the request *)

UpperCaseLetters ==
    <<"A", "B", "C", "D", "E", "F", "G", "H", "I", "J", "K", "L", "M",
      "N", "O", "P", "Q", "R", "S", "T", "U", "V", "W", "X", "Y", "Z">>

LowerCaseLetters ==
    <<"a", "b", "c", "d", "e", "f", "g", "h", "i", "j", "k", "l", "m",
      "n", "o", "p", "q", "r", "s", "t", "u", "v", "w", "x", "y", "z">>

\* String.prototype.toLowerCase
ToLowerCase(s) ==
    [k \in 1..Len(s) |->
        IF \E n \in 1..26 : UpperCaseLetters[n] = s[k]
        THEN LowerCaseLetters[CHOOSE n \in 1..26 : UpperCaseLetters[n] = s[k]]
        ELSE s[k]]

\* String.prototype.includes
Includes(s, sub) ==
    \E i \in 0..(Len(s) - Len(sub)) : SubSeq(s, i + 1, i + Len(sub)) = sub

\* a keyword list that also notifies of network errors
NotifyKeywordsWithFetch ==
    {<<"a", "p", "i", SP, "e", "r", "r", "o", "r">>,
     <<"f", "e", "t", "c", "h", SP, "f", "a", "i", "l", "e", "d">>}

\* the substrings of the lowercased message that trigger the failure email
NotifyKeywords ==
    {<<"a", "p", "i", SP, "e", "r", "r", "o", "r">>,
     <<"m", "o", "d", "e", "l", SP, "n", "o", "t", SP, "f", "o", "u", "n",
           "d">>,
     <<"4", "0", "4">>, <<"5", "0", "0">>, <<"5", "0", "3">>,
     <<"4", "0", "1">>}

\* the condition of the if around sendFailureEmail
ShouldSendFailureEmail(errorMessage) ==
    \E keyword \in NotifyKeywords :
        Includes(ToLowerCase(errorMessage), keyword)

\* a message that leaves the status out
ApiErrorMessageNoStatus(status, errorText) ==
    <<"A", "P", "I", SP, "E", "r", "r", "o", "r", ":", SP>> \o errorText

\* the template literal `API Error (${response.status}): ${errorText}`
ApiErrorMessage(status, errorText) ==
    <<"A", "P", "I", SP, "E", "r", "r", "o", "r", SP, "(">>
    \o ToStr(status) \o <<")", ":", SP>> \o errorText

\* the message of the TypeError a rejected fetch carries
FETCH_FAILED == <<"f", "e", "t", "c", "h", SP, "f", "a", "i", "l", "e", "d">>

\* the message of the SyntaxError of response.json() / req.json()
JSON_ERROR ==
        <<"U", "n", "e", "x", "p", "e", "c", "t", "e", "d", SP, "e", "n",
          "d", SP, "o", "f", SP, "J", "S", "O", "N", SP, "i", "n", "p",
          "u", "t">>

\* the message of the TypeError of body.prompt when req.body is undefined
NO_BODY_ERROR ==
        <<"C", "a", "n", "n", "o", "t", SP, "r", "e", "a", "d", SP, "p", "r",
          "o", "p", "e", "r", "t", "i", "e", "s", SP, "o", "f", SP, "u",
          "n", "d", "e", "f", "i", "n", "e", "d", SP, "(", "r", "e", "a",
          "d", "i", "n", "g", SP, "'", "p", "r", "o", "m", "p", "t", "'",
          ")">>

\* the message of the TypeError of a response body whose stream broke
BODY_FAILED == <<"t", "e", "r", "m", "i", "n", "a", "t", "e", "d">>

\* a catch block without the AbortError test
ErrorResponseStatusAlways500(errorName) == 500

\* the status the outer catch block answers an error of this name with
ErrorResponseStatus(errorName) ==
    IF errorName = "AbortError" THEN 504 ELSE 500

\* the handlers that persist conversations: src/api/index.ts ("api") and
\* the edge handler src/unnamed/part_004 ("edge")
Variants == {"api", "edge"}

\* sendFailureEmail exists in the api handler only
HasFailureEmail(variant) == variant = "api"

\* the api handler does not await saveConversation, the edge handler does
AwaitsSave(variant) == variant = "edge"

\* uuidv4()
GeneratedId == <<"u", "u", "i", "d">>

PROMPT == <<"l", "s">>
CONTENT == <<"h", "i">>

\* the parsed request bodies; an absent field and an empty string are both
\* falsy and both <<>>; valid is FALSE when there is no body to read
Bodies ==
    {[valid |-> TRUE, prompt |-> pr, message0 |-> m0, mode |-> mo,
      conversationId |-> ci] :
        pr \in {<<>>, PROMPT}, m0 \in {<<>>, CONTENT},
        mo \in {"", "chat", "command"}, ci \in {<<>>, <<"c", "1">>}}
    \cup {[valid |-> FALSE, prompt |-> <<>>, message0 |-> <<>>, mode |-> "",
           conversationId |-> <<>>]}

Requests ==
    {[method |-> me, body |-> bo] : me \in {"POST"}, bo \in Bodies}
    \cup {[method |-> me, body |-> bo] :
             me \in {"OPTIONS", "GET"},
             bo \in {b \in Bodies :
                        \/ ~b.valid
                        \/ /\ b.prompt = PROMPT /\ b.message0 = <<>>
                           /\ b.mode = "" /\ b.conversationId = <<>>}}

\* which of PINECONE_API_KEY, RESEND_API_KEY, NOTIFICATION_EMAIL_TO are set
Envs == [pineconeKey : BOOLEAN, resendKey : BOOLEAN, emailTo : BOOLEAN]

\* the non-2xx statuses and the bodies the completion provider answers with
UpstreamStatuses == {404, 429, 504}
UpstreamErrorTexts == {<<>>, <<"n", "o">>}

\* the histories getConversationHistory hands to the handler
Histories ==
    {<<>>,
     <<[role |-> ROLE_USER, content |-> <<"h", "i">>, timestamp |-> 9],
       [role |-> ROLE_ASSISTANT, content |-> <<"o", "k">>, timestamp |-> 10]>>}

NoResponse ==
    [status |-> 0, error |-> "", details |-> <<>>, conversationId |-> <<>>,
     data |-> FALSE]

NoSave ==
    [pc |-> "none", calls |-> 0, conversationId |-> <<>>,
     aiResponse |-> <<>>, failed |-> FALSE]

NoQuery == [calls |-> 0, conversationId |-> <<>>, failed |-> FALSE]

NoEmail == [pc |-> "none", calls |-> 0, sends |-> 0]

NoOutbound ==
    [mode |-> "", prompt |-> <<>>, history |-> <<>>, messages |-> <<>>]

HandlerIdle ==
    /\ hVariant = "api"
    /\ hEnv = [pineconeKey |-> FALSE, resendKey |-> FALSE, emailTo |-> FALSE]
    /\ hReq = [method |-> "", body |-> [valid |-> FALSE, prompt |-> <<>>,
                  message0 |-> <<>>, mode |-> "", conversationId |-> <<>>]]
    /\ hPc = "idle"
    /\ hInitialized = FALSE
    /\ hConversationId = <<>>
    /\ hHistory = <<>>
    /\ hOutbound = NoOutbound
    /\ hTimer = "unset"
    /\ hFetch = "none"
    /\ hFetchCalls = 0
    /\ hStatus = 0
    /\ hResponse = NoResponse
    /\ hSave = NoSave
    /\ hEmail = NoEmail
    /\ hQuery = NoQuery
    /\ hInitCalls = 0

-----------------------------------------------------------------------------
(* A direct call of chunkText on a bounded text *)

Texts == SeqsUpTo(Alphabet, MaxTextLen)

InitChunk ==
    /\ ctText \in Texts
    /\ ctMaxChunkSize \in 1..MaxChunkArg
    /\ ctChunks = <<>>
    /\ ctPc = "call"
    /\ StoreIdle
    /\ HandlerIdle
    /\ InitPineconeIdle
    /\ CallIdle

ChunkTextCall ==
    /\ ctPc = "call"
    /\ ctChunks' = chunkText(ctText, ctMaxChunkSize)
    /\ ctPc' = "returned"
    /\ UNCHANGED <<ctText, ctMaxChunkSize, storeVars, handlerVars, initVars, callVars>>

NextChunk == ChunkTextCall

SpecChunk == InitChunk /\ [][NextChunk]_vars

-----------------------------------------------------------------------------
(* The conversation store: saveConversation calls, the index they write,   *)
(* getConversationHistory calls, and the clock.                            *)
(* hist holds the result of a getConversationHistory call in the state the *)
(* call returns in; the next step of any other operation clears it, so a   *)
(* result at hand was computed from the store as it is.                    *)

InitStore ==
    /\ ChunkIdle
    /\ StoreIdle
    /\ HandlerIdle
    /\ InitPineconeIdle
    /\ CallIdle

\* Date.now() advances
Tick ==
    /\ clock < ClockStart + MaxTicks
    /\ clock' = clock + 1
    /\ hist' = NoHist
    /\ UNCHANGED <<store, save, chunkVars, handlerVars, initVars, callVars>>

\* (batches of a save: the arrays its pineconeUpsert calls were given)
\* saveConversation up to its first await: Date.now(), the two chunk loops,
\* and either the first pineconeUpsert request, or the return (true with no
\* vector, false from the catch block when chunkText threw)
SaveStart(p, conversationId, userInput, aiResponse) ==
    /\ save[p].pc = "idle"
    /\ LET threw   == ~IsString(userInput) \/ ~IsString(aiResponse)
           vectors == IF threw THEN <<>>
                      ELSE BuildVectors(conversationId, userInput, aiResponse,
                                        clock)
       IN  save' = [save EXCEPT ![p] =
              [pc             |-> IF threw \/ vectors = <<>>
                                  THEN "returned" ELSE "upsert",
               conversationId |-> conversationId,
               userInput      |-> userInput,
               aiResponse     |-> aiResponse,
               currentTime    |-> clock,
               vectors        |-> vectors,
               i              |-> 0,
               result         |-> ~threw,
               threw          |-> threw,
               upsertFailed   |-> FALSE,
               batches        |-> IF threw \/ vectors = <<>> THEN <<>>
                                  ELSE <<BatchAt(vectors, 0)>>,
               after          |-> {q \in SaveProcs : save[q].pc = "returned"}]]
    /\ hist' = NoHist
    /\ UNCHANGED <<clock, store, chunkVars, handlerVars, initVars, callVars>>

\* the return value of saveConversation once its batch loop is over
SaveResult(upsertFailed) == TRUE

\* the batch loop after the await of one pineconeUpsert call: the next
\* request, or the return
AfterUpsert(s, ok) ==
    LET next == s.i + BATCH_SIZE
        failed == s.upsertFailed \/ ~ok
    IN  [s EXCEPT !.i = next,
                  !.upsertFailed = failed,
                  !.batches = IF next < Len(s.vectors)
                              THEN Append(@, BatchAt(s.vectors, next))
                              ELSE @,
                  !.pc = IF next < Len(s.vectors) THEN "upsert" ELSE "returned",
                  !.result = IF next < Len(s.vectors) THEN s.result
                             ELSE SaveResult(failed)]

\* pineconeUpsert: the index stored the batch and answered 2xx
UpsertStored(p) ==
    /\ save[p].pc = "upsert"
    /\ store' = Upsert(store, BatchAt(save[p].vectors, save[p].i))
    /\ save' = [save EXCEPT ![p] = AfterUpsert(save[p], TRUE)]
    /\ hist' = NoHist
    /\ UNCHANGED <<clock, chunkVars, handlerVars, initVars, callVars>>

\* pineconeUpsert: the request failed or was answered non-2xx; pineconeUpsert
\* catches the error and returns false
UpsertFailed(p) ==
    /\ save[p].pc = "upsert"
    /\ save' = [save EXCEPT ![p] = AfterUpsert(save[p], FALSE)]
    /\ hist' = NoHist
    /\ UNCHANGED <<clock, store, chunkVars, handlerVars, initVars, callVars>>

\* getConversationHistory when pineconeQuery got an answer
GetHistoryAnswered(conversationId) ==
    /\ hist.pc = "none"
    /\ \E matches \in QueryMatches(store, conversationId, TopK) :
          hist' = [pc             |-> "returned",
                   conversationId |-> conversationId,
                   queryOk        |-> TRUE,
                   messages       |-> getConversationHistory(matches)]
    /\ UNCHANGED <<clock, store, save, chunkVars, handlerVars, initVars, callVars>>

\* getConversationHistory when the query failed: pineconeQuery catches the
\* error and returns {matches: []}
GetHistoryQueryFailed(conversationId) ==
    /\ hist.pc = "none"
    /\ hist' = [pc             |-> "returned",
                conversationId |-> conversationId,
                queryOk        |-> FALSE,
                messages       |-> getConversationHistory(<<>>)]
    /\ UNCHANGED <<clock, store, save, chunkVars, handlerVars, initVars, callVars>>

NextStore ==
    \/ Tick
    \/ \E p \in SaveProcs :
          \E c \in SaveConversationIds(p), u \in SaveUserInputs(p),
             a \in SaveAiResponses(p) : SaveStart(p, c, u, a)
    \/ \E p \in SaveProcs : UpsertStored(p)
    \/ \E p \in SaveProcs : UpsertFailed(p)
    \/ \E c \in ConversationIds : GetHistoryAnswered(c)
    \/ \E c \in ConversationIds : GetHistoryQueryFailed(c)

SpecStore == InitStore /\ [][NextStore]_vars

-----------------------------------------------------------------------------
(* One request served by a completion handler.  Each action is the code    *)
(* between two awaits; saveConversation and the email send of the request  *)
(* run on after the handler has answered.                                  *)

InitHandler ==
    /\ ChunkIdle
    /\ StoreIdle
    /\ InitPineconeIdle
    /\ CallIdle
    /\ hVariant \in Variants
    /\ hEnv \in Envs
    /\ hReq \in Requests
    /\ hPc = "start"
    /\ hInitialized = FALSE
    /\ hConversationId = <<>>
    /\ hHistory = <<>>
    /\ hOutbound = NoOutbound
    /\ hTimer = "unset"
    /\ hFetch = "none"
    /\ hFetchCalls = 0
    /\ hStatus = 0
    /\ hResponse = NoResponse
    /\ hSave = NoSave
    /\ hEmail = NoEmail
    /\ hQuery = NoQuery
    /\ hInitCalls = 0

Response(status, error, details, conversationId, data) ==
    [status |-> status, error |-> error, details |-> details,
     conversationId |-> conversationId, data |-> data]

\* res.status(...).json(...) / return new Response(...)
Answer(response) ==
    /\ hResponse' = response
    /\ hPc' = "done"

\* sendFailureEmail up to its await: nothing is sent unless RESEND_API_KEY
\* and NOTIFICATION_EMAIL_TO are both set
SendFailureEmail(email, env) ==
    IF env.resendKey /\ env.emailTo
    THEN [pc |-> "inflight", calls |-> email.calls + 1,
          sends |-> email.sends + 1]
    ELSE [email EXCEPT !.calls = @ + 1]

\* the outer catch block
CatchError(errorName, errorMessage) ==
    /\ Answer(IF ErrorResponseStatus(errorName) = 504
              THEN Response(504, "Request timeout", <<>>, <<>>, FALSE)
              ELSE Response(500, "Internal server error", errorMessage,
                            <<>>, FALSE))
    /\ hEmail' = IF /\ HasFailureEmail(hVariant)
                    /\ ErrorResponseStatus(errorName) # 504
                    /\ ShouldSendFailureEmail(errorMessage)
                 THEN SendFailureEmail(hEmail, hEnv)
                 ELSE hEmail

\* an answer to OPTIONS with 204
AnswerOptionsNoContent ==
    /\ hPc = "start"
    /\ hReq.method = "OPTIONS"
    /\ Answer(Response(204, "", <<>>, <<>>, FALSE))
    /\ UNCHANGED <<hVariant, hEnv, hReq, hInitialized, hConversationId,
                   hHistory, hOutbound, hTimer, hFetch, hFetchCalls, hStatus,
                   hSave, hEmail, hQuery, hInitCalls, chunkVars, storeVars, initVars,
                   callVars>>

\* if (req.method === "OPTIONS")
AnswerOptions ==
    /\ hPc = "start"
    /\ hReq.method = "OPTIONS"
    /\ Answer(Response(200, "", <<>>, <<>>, FALSE))
    /\ UNCHANGED <<hVariant, hEnv, hReq, hInitialized, hConversationId,
                   hHistory, hOutbound, hTimer, hFetch, hFetchCalls, hStatus,
                   hSave, hEmail, hQuery, hInitCalls, chunkVars, storeVars, initVars, callVars>>

\* if (req.method !== "POST")
RejectMethod ==
    /\ hPc = "start"
    /\ hReq.method \notin {"OPTIONS", "POST"}
    /\ Answer(Response(405, "Method not allowed", <<>>, <<>>, FALSE))
    /\ UNCHANGED <<hVariant, hEnv, hReq, hInitialized, hConversationId,
                   hHistory, hOutbound, hTimer, hFetch, hFetchCalls, hStatus,
                   hSave, hEmail, hQuery, hInitCalls, chunkVars, storeVars, initVars, callVars>>

\* a POST enters the try block and awaits initPinecone()
StartPost ==
    /\ hPc = "start"
    /\ hReq.method = "POST"
    /\ hPc' = "init"
    /\ UNCHANGED <<hVariant, hEnv, hReq, hInitialized, hConversationId,
                   hHistory, hOutbound, hTimer, hFetch, hFetchCalls, hStatus,
                   hResponse, hSave, hEmail, hQuery, hInitCalls, chunkVars, storeVars, initVars, callVars>>

\* the values initPinecone() can resolve to: false without the API key; with
\* it, true in the api handler, and in the edge handler whatever the index
\* listing and creation calls gave
InitPineconeResults(variant, env) ==
    IF ~env.pineconeKey THEN {FALSE}
    ELSE IF variant = "api" THEN {TRUE}
    ELSE BOOLEAN

\* the number of index listing calls initPinecone can make: none in the api
\* handler and without the API key, else one per attempt
InitPineconeListCalls(variant, env) ==
    IF variant = "api" \/ ~env.pineconeKey THEN {0} ELSE 1..RETRY_ATTEMPTS

\* body.prompt (api), body.prompt || body.messages?.[0]?.content (edge)
UserPrompt(variant, body) ==
    IF variant = "api" THEN body.prompt
    ELSE IF body.prompt # <<>> THEN body.prompt ELSE body.message0

\* an id that ignores the one the request supplies
ConversationIdAlwaysGenerated(body) == GeneratedId

\* body.conversationId || uuidv4()
ConversationIdOf(body) ==
    IF body.conversationId # <<>> THEN body.conversationId ELSE GeneratedId

\* a default of chat mode
ModeOfDefaultChat(variant, body) ==
    IF variant = "api" /\ body.mode \in {"", "chat"} THEN "chat" ELSE "command"

\* body.mode || "command", then the test mode === "chat"; the edge handler
\* has the command prompt only
ModeOf(variant, body) ==
    IF variant = "api" /\ body.mode = "chat" THEN "chat" ELSE "command"

\* the messages of the completion request
OutboundMessages(variant, body, history) ==
    IF ModeOf(variant, body) = "chat"
    THEN createChatSystemPrompt(UserPrompt(variant, body), history)
    ELSE <<[role    |-> ROLE_USER,
            content |-> IF variant = "api"
                        THEN createCommandSystemPrompt(
                                 UserPrompt(variant, body), history)
                        ELSE createSystemPrompt(UserPrompt(variant, body),
                                                history)]>>

\* a dispatch that issues the completion call a second time
StartFetchTwice(history) ==
    /\ hOutbound' = [mode    |-> ModeOf(hVariant, hReq.body),
                     prompt  |-> UserPrompt(hVariant, hReq.body),
                     history |-> history,
                     messages |-> OutboundMessages(hVariant, hReq.body,
                                                   history)]
    /\ hTimer' = "armed"
    /\ hFetch' = "inflight"
    /\ hFetchCalls' = hFetchCalls + 2
    /\ hPc' = "fetch"

\* the request is built, the timer armed and the completion call issued
StartFetch(history) ==
    /\ hOutbound' = [mode    |-> ModeOf(hVariant, hReq.body),
                     prompt  |-> UserPrompt(hVariant, hReq.body),
                     history |-> history,
                     messages |-> OutboundMessages(hVariant, hReq.body,
                                                   history)]
    /\ hTimer' = "armed"
    /\ hFetch' = "inflight"
    /\ hFetchCalls' = hFetchCalls + 1
    /\ hPc' = "fetch"

\* initPinecone() resolved, and reading the body throws (req.body is
\* undefined, req.json() rejects)
InitThenBadBody(ok) ==
    /\ hPc = "init"
    /\ ok \in InitPineconeResults(hVariant, hEnv)
    /\ ~hReq.body.valid
    /\ hInitialized' = ok
    /\ CatchError(IF hVariant = "api" THEN "TypeError" ELSE "SyntaxError",
                  IF hVariant = "api" THEN NO_BODY_ERROR ELSE JSON_ERROR)
    /\ hInitCalls' \in InitPineconeListCalls(hVariant, hEnv)
    /\ UNCHANGED <<hVariant, hEnv, hReq, hConversationId, hHistory,
                   hOutbound, hTimer, hFetch, hFetchCalls, hStatus, hSave,
                   hQuery, chunkVars, storeVars, initVars, callVars>>

\* initPinecone() resolved, and if (!userPrompt) answers 400
InitThenNoPrompt(ok) ==
    /\ hPc = "init"
    /\ ok \in InitPineconeResults(hVariant, hEnv)
    /\ hReq.body.valid
    /\ UserPrompt(hVariant, hReq.body) = <<>>
    /\ hInitialized' = ok
    /\ hConversationId' = ConversationIdOf(hReq.body)
    /\ Answer(Response(400, "Prompt is required", <<>>, <<>>, FALSE))
    /\ hInitCalls' \in InitPineconeListCalls(hVariant, hEnv)
    /\ UNCHANGED <<hVariant, hEnv, hReq, hHistory, hOutbound, hTimer, hFetch,
                   hFetchCalls, hStatus, hSave, hEmail, hQuery, chunkVars, storeVars, initVars, callVars>>

\* initPinecone() resolved to true: the handler awaits
\* getConversationHistory(conversationId)
InitThenHistory ==
    /\ hPc = "init"
    /\ TRUE \in InitPineconeResults(hVariant, hEnv)
    /\ hReq.body.valid
    /\ UserPrompt(hVariant, hReq.body) # <<>>
    /\ hInitialized' = TRUE
    /\ hConversationId' = ConversationIdOf(hReq.body)
    /\ hQuery' = [calls |-> hQuery.calls + 1,
                   conversationId |-> ConversationIdOf(hReq.body),
                   failed |-> FALSE]
    /\ hPc' = "history"
    /\ hInitCalls' \in InitPineconeListCalls(hVariant, hEnv)
    /\ UNCHANGED <<hVariant, hEnv, hReq, hHistory, hOutbound, hTimer, hFetch,
                   hFetchCalls, hStatus, hResponse, hSave, hEmail, chunkVars,
                   storeVars, initVars, callVars>>

\* initPinecone() resolved to false: no history is read
InitThenFetch ==
    /\ hPc = "init"
    /\ FALSE \in InitPineconeResults(hVariant, hEnv)
    /\ hReq.body.valid
    /\ UserPrompt(hVariant, hReq.body) # <<>>
    /\ hInitialized' = FALSE
    /\ hConversationId' = ConversationIdOf(hReq.body)
    /\ StartFetch(<<>>)
    /\ hInitCalls' \in InitPineconeListCalls(hVariant, hEnv)
    /\ UNCHANGED <<hVariant, hEnv, hReq, hHistory, hStatus, hResponse, hSave,
                   hEmail, hQuery, chunkVars, storeVars, initVars, callVars>>

\* getConversationHistory resolved after pineconeQuery failed: the query
\* error is caught and the history is that of no matches
HistoryQueryFails ==
    /\ hPc = "history"
    /\ hQuery' = [hQuery EXCEPT !.failed = TRUE]
    /\ hHistory' = getConversationHistory(<<>>)
    /\ StartFetch(getConversationHistory(<<>>))
    /\ UNCHANGED <<hVariant, hEnv, hReq, hInitialized, hConversationId,
                   hStatus, hResponse, hSave, hEmail, hInitCalls, chunkVars, storeVars, initVars, callVars>>

\* getConversationHistory resolved with the messages of the matches (it
\* never rejects)
HistoryReturns(history) ==
    /\ hPc = "history"
    /\ hHistory' = history
    /\ StartFetch(history)
    /\ UNCHANGED <<hVariant, hEnv, hReq, hInitialized, hConversationId,
                   hStatus, hResponse, hSave, hEmail, hQuery, hInitCalls, chunkVars, storeVars, initVars, callVars>>

\* the completion call resolved with a 2xx status: clearTimeout, then
\* await response.json()
FetchResolvesOk ==
    /\ hPc = "fetch"
    /\ hFetch = "inflight"
    /\ hFetch' = "ok"
    /\ hStatus' = 200
    /\ hTimer' = "cleared"
    /\ hPc' = "json"
    /\ UNCHANGED <<hVariant, hEnv, hReq, hInitialized, hConversationId,
                   hHistory, hOutbound, hFetchCalls, hResponse, hSave, hEmail,
                   hQuery, hInitCalls, chunkVars, storeVars, initVars, callVars>>

\* the completion call resolved with a non-2xx status: clearTimeout, then
\* await response.text()
FetchResolvesStatus(status) ==
    /\ hPc = "fetch"
    /\ hFetch = "inflight"
    /\ hFetch' = "status"
    /\ hStatus' = status
    /\ hTimer' = "cleared"
    /\ hPc' = "text"
    /\ UNCHANGED <<hVariant, hEnv, hReq, hInitialized, hConversationId,
                   hHistory, hOutbound, hFetchCalls, hResponse, hSave, hEmail,
                   hQuery, hInitCalls, chunkVars, storeVars, initVars, callVars>>

\* the completion call rejected with a network error: the inner catch
\* clears the timer and rethrows
FetchRejects ==
    /\ hPc = "fetch"
    /\ hFetch = "inflight"
    /\ hFetch' = "failed"
    /\ hTimer' = "cleared"
    /\ CatchError("TypeError", FETCH_FAILED)
    /\ UNCHANGED <<hVariant, hEnv, hReq, hInitialized, hConversationId,
                   hHistory, hOutbound, hFetchCalls, hStatus, hSave,
                   hQuery, hInitCalls, chunkVars, storeVars, initVars, callVars>>

\* the timer fires while the completion call is in flight:
\* controller.abort() rejects the call with an AbortError
TimerFires ==
    /\ hTimer = "armed"
    /\ hFetch = "inflight"
    /\ hTimer' = "fired"
    /\ hFetch' = "aborted"
    /\ CatchError("AbortError", <<>>)
    /\ UNCHANGED <<hVariant, hEnv, hReq, hInitialized, hConversationId,
                   hHistory, hOutbound, hFetchCalls, hStatus, hSave,
                   hQuery, hInitCalls, chunkVars, storeVars, initVars, callVars>>

\* a handler that saves whatever the store and the completion are
JsonReadAlwaysSaves(content) ==
    /\ hPc = "json"
    /\ IF TRUE
       THEN /\ hSave' = [pc |-> "inflight", calls |-> hSave.calls + 1,
                         conversationId |-> hConversationId,
                         aiResponse |-> content, failed |-> FALSE]
            /\ IF AwaitsSave(hVariant)
               THEN hPc' = "save" /\ UNCHANGED hResponse
               ELSE Answer(Response(200, "", <<>>, hConversationId, TRUE))
       ELSE /\ UNCHANGED hSave
            /\ Answer(Response(200, "", <<>>, hConversationId, TRUE))
    /\ UNCHANGED <<hVariant, hEnv, hReq, hInitialized, hConversationId,
                   hHistory, hOutbound, hTimer, hFetch, hFetchCalls, hStatus,
                   hEmail, hQuery, hInitCalls, chunkVars, storeVars, initVars, callVars>>

\* response.json() resolved: the save is started when the store is
\* initialized and the completion has content; the api handler answers at
\* once, the edge handler awaits the save
JsonRead(content) ==
    /\ hPc = "json"
    /\ IF hInitialized /\ content # <<>>
       THEN /\ hSave' = [pc |-> "inflight", calls |-> hSave.calls + 1,
                         conversationId |-> hConversationId,
                         aiResponse |-> content, failed |-> FALSE]
            /\ IF AwaitsSave(hVariant)
               THEN hPc' = "save" /\ UNCHANGED hResponse
               ELSE Answer(Response(200, "", <<>>, hConversationId, TRUE))
       ELSE /\ UNCHANGED hSave
            /\ Answer(Response(200, "", <<>>, hConversationId, TRUE))
    /\ UNCHANGED <<hVariant, hEnv, hReq, hInitialized, hConversationId,
                   hHistory, hOutbound, hTimer, hFetch, hFetchCalls, hStatus,
                   hEmail, hQuery, hInitCalls, chunkVars, storeVars, initVars, callVars>>

\* response.json() rejected: the body is no JSON, and the call has failed
JsonFails ==
    /\ hPc = "json"
    /\ hFetch' = "failed"
    /\ CatchError("SyntaxError", JSON_ERROR)
    /\ UNCHANGED <<hVariant, hEnv, hReq, hInitialized, hConversationId,
                   hHistory, hOutbound, hTimer, hFetchCalls, hStatus,
                   hSave, hQuery, hInitCalls, chunkVars, storeVars, initVars, callVars>>

\* response.text() resolved: throw new Error(`API Error (...): ...`)
TextRead(errorText) ==
    /\ hPc = "text"
    /\ CatchError("Error", ApiErrorMessage(hStatus, errorText))
    /\ UNCHANGED <<hVariant, hEnv, hReq, hInitialized, hConversationId,
                   hHistory, hOutbound, hTimer, hFetch, hFetchCalls, hStatus,
                   hSave, hQuery, hInitCalls, chunkVars, storeVars, initVars, callVars>>

\* response.text() rejected: the body stream of the error answer broke
TextFails ==
    /\ hPc = "text"
    /\ hFetch' = "failed"
    /\ CatchError("TypeError", BODY_FAILED)
    /\ UNCHANGED <<hVariant, hEnv, hReq, hInitialized, hConversationId,
                   hHistory, hOutbound, hTimer, hFetchCalls, hStatus, hSave,
                   hQuery, hInitCalls, chunkVars, storeVars, initVars, callVars>>

\* saveConversation resolved, with or without a failed stage (it never
\* rejects); the edge handler, which
\* awaited it, answers now
SaveReturns(failed) ==
    /\ hSave.pc = "inflight"
    /\ hSave' = [hSave EXCEPT !.pc = "returned", !.failed = failed]
    /\ IF hPc = "save"
       THEN Answer(Response(200, "", <<>>, hConversationId, TRUE))
       ELSE UNCHANGED <<hPc, hResponse>>
    /\ UNCHANGED <<hVariant, hEnv, hReq, hInitialized, hConversationId,
                   hHistory, hOutbound, hTimer, hFetch, hFetchCalls, hStatus,
                   hEmail, hQuery, hInitCalls, chunkVars, storeVars, initVars, callVars>>

\* resend.emails.send settled; a failure is caught and logged
EmailSettles ==
    /\ hEmail.pc = "inflight"
    /\ hEmail' = [hEmail EXCEPT !.pc = "settled"]
    /\ UNCHANGED <<hVariant, hEnv, hReq, hPc, hInitialized, hConversationId,
                   hHistory, hOutbound, hTimer, hFetch, hFetchCalls, hStatus,
                   hResponse, hSave, hQuery, hInitCalls, chunkVars, storeVars, initVars, callVars>>

NextHandler ==
    \/ AnswerOptions
    \/ RejectMethod
    \/ StartPost
    \/ \E ok \in BOOLEAN : InitThenBadBody(ok)
    \/ \E ok \in BOOLEAN : InitThenNoPrompt(ok)
    \/ InitThenHistory
    \/ InitThenFetch
    \/ \E history \in Histories : HistoryReturns(history)
    \/ HistoryQueryFails
    \/ FetchResolvesOk
    \/ \E status \in UpstreamStatuses : FetchResolvesStatus(status)
    \/ FetchRejects
    \/ TimerFires
    \/ \E content \in {<<>>, CONTENT} : JsonRead(content)
    \/ JsonFails
    \/ \E errorText \in UpstreamErrorTexts : TextRead(errorText)
    \/ TextFails
    \/ \E failed \in BOOLEAN : SaveReturns(failed)
    \/ EmailSettles

SpecHandler == InitHandler /\ [][NextHandler]_vars

\* every call the handler awaits settles, and an armed timer fires unless
\* it is cleared
FairHandler == WF_vars(NextHandler)

SpecHandlerLive == SpecHandler /\ FairHandler

-----------------------------------------------------------------------------
(* One call of initPinecone of the edge handler.  Each action is the code  *)
(* between two awaits.                                                     *)

InitInitPinecone ==
    /\ ChunkIdle
    /\ StoreIdle
    /\ HandlerIdle
    /\ CallIdle
    /\ \E apiKey \in BOOLEAN :
          ip = [NoInitPinecone EXCEPT !.apiKey = apiKey, !.pc = "start"]

\* return of initPinecone
IpReturn(s, result, outcome) ==
    [s EXCEPT !.pc = "returned", !.result = result,
              !.outcomes = IF outcome = "" THEN @ ELSE Append(@, outcome)]

\* the call enters: false without the API key, else attempt 1 awaits
\* pineconeListIndexes()
IpStart ==
    /\ ip.pc = "start"
    /\ ip' = IF ~ip.apiKey THEN IpReturn(ip, FALSE, "")
             ELSE [ip EXCEPT !.pc = "list", !.attempt = 1,
                             !.listCalls = @ + 1]
    /\ UNCHANGED <<chunkVars, storeVars, handlerVars, callVars>>

\* pineconeListIndexes resolved (failed is TRUE when its request failed and
\* the catch block returned the empty array): with no index the create call
\* is made; with the configured index the call returns true; without it the
\* create call is made
IpListReturns(indexes, failed) ==
    /\ ip.pc = "list"
    /\ failed => indexes = {}
    /\ LET listed == [ip EXCEPT !.indexes = indexes, !.listFailed = failed,
                                !.listings = Append(@, indexes)]
       IN  ip' = IF indexes = {}
                 THEN [listed EXCEPT !.pc = "createOnce",
                                     !.createCalls = @ + 1]
                 ELSE IF PINECONE_INDEX_NAME \in indexes
                 THEN IpReturn(listed, TRUE, "ok")
                 ELSE [listed EXCEPT !.pc = "create", !.createCalls = @ + 1]
    /\ UNCHANGED <<chunkVars, storeVars, handlerVars, callVars>>

\* the catch block of the attempt loop: false after the last attempt, else
\* the backoff wait
IpCatch(s) ==
    IF s.attempt = RETRY_ATTEMPTS THEN IpReturn(s, FALSE, "failed")
    ELSE [s EXCEPT !.pc = "backoff",
                   !.outcomes = Append(@, "failed"),
                   !.waits = Append(@, BackoffDelay(s.attempt)),
                   !.backoffs = Append(@, BackoffDelay(s.attempt))]

\* a create call whose failure is retried after an empty listing too
IpCreateReturnsRetrying(created) ==
    /\ ip.pc \in {"createOnce", "create"}
    /\ ip' = IF created
             THEN [ip EXCEPT !.pc = "indexWait",
                             !.waits = Append(@, INDEX_WAIT)]
             ELSE IpCatch(ip)
    /\ UNCHANGED <<chunkVars, storeVars, handlerVars, callVars>>

\* pineconeCreateIndex resolved (it catches its errors and returns false)
IpCreateReturns(created) ==
    /\ ip.pc \in {"createOnce", "create"}
    /\ ip' = IF created
             THEN [ip EXCEPT !.pc = "indexWait",
                             !.waits = Append(@, INDEX_WAIT)]
             ELSE IF ip.pc = "createOnce"
             THEN IpReturn(ip, FALSE, "failed")
             ELSE IpCatch(ip)
    /\ UNCHANGED <<chunkVars, storeVars, handlerVars, callVars>>

\* the wait for the created index is over: return true
IpIndexWaitEnds ==
    /\ ip.pc = "indexWait"
    /\ ip' = IpReturn(ip, TRUE, "ok")
    /\ UNCHANGED <<chunkVars, storeVars, handlerVars, callVars>>

\* the backoff wait is over: the next attempt awaits pineconeListIndexes()
IpBackoffEnds ==
    /\ ip.pc = "backoff"
    /\ ip' = [ip EXCEPT !.pc = "list", !.attempt = @ + 1,
                        !.listCalls = @ + 1]
    /\ UNCHANGED <<chunkVars, storeVars, handlerVars, callVars>>

NextInitPinecone ==
    \/ IpStart
    \/ \E indexes \in Listings, failed \in BOOLEAN :
          IpListReturns(indexes, failed)
    \/ \E created \in BOOLEAN : IpCreateReturns(created)
    \/ IpIndexWaitEnds
    \/ IpBackoffEnds

SpecInitPinecone == InitInitPinecone /\ [][NextInitPinecone]_vars

\* every request of initPinecone is answered or fails, and every timer it
\* sets fires
FairInitPinecone == WF_vars(NextInitPinecone)

SpecInitPineconeLive == SpecInitPinecone /\ FairInitPinecone

-----------------------------------------------------------------------------
(* A direct call of createChatSystemPrompt on a bounded history *)

\* the messages of the histories given to a direct call
ChatMessages ==
    {[role |-> ROLE_USER, content |-> <<"h", "i">>, timestamp |-> 9],
     [role |-> ROLE_ASSISTANT, content |-> <<"o", "k">>, timestamp |-> 10]}

InitChatPrompt ==
    /\ ChunkIdle
    /\ StoreIdle
    /\ HandlerIdle
    /\ InitPineconeIdle
    /\ \E userPrompt \in {PROMPT, CONTENT},
          history \in SeqsUpTo(ChatMessages, MaxHistoryLen) :
          call = [fn     |-> "createChatSystemPrompt",
                  args   |-> [userPrompt |-> userPrompt, history |-> history],
                  result |-> <<>>,
                  pc     |-> "call"]

ChatPromptCall ==
    /\ call.fn = "createChatSystemPrompt"
    /\ call.pc = "call"
    /\ call' = [call EXCEPT
                   !.result = createChatSystemPrompt(call.args.userPrompt,
                                                     call.args.history),
                   !.pc = "returned"]
    /\ UNCHANGED <<chunkVars, storeVars, handlerVars, initVars>>

NextChatPrompt == ChatPromptCall

SpecChatPrompt == InitChatPrompt /\ [][NextChatPrompt]_vars

-----------------------------------------------------------------------------
(* A direct run of the reconstruction of getConversationHistory on the     *)
(* matches of one query, in the order the index returned them              *)

\* the metadata the matches of a query can carry: records of the two roles,
\* and records without a role or without content, which the loop skips
MatchMetadata ==
    {[conversationId |-> <<"c", "1">>, role |-> role, content |-> content,
      timestamp |-> timestamp, chunkIndex |-> chunkIndex, totalChunks |-> 2,
      source |-> SOURCE_USER] :
        role \in {ROLE_USER, ROLE_ASSISTANT}, content \in {<<"a">>, <<"b">>},
        timestamp \in {9, 10}, chunkIndex \in {0, 1}}
    \cup {[conversationId |-> <<"c", "1">>, role |-> <<>>,
           content |-> <<"a">>, timestamp |-> 9, chunkIndex |-> 0,
           totalChunks |-> 2, source |-> SOURCE_USER],
          [conversationId |-> <<"c", "1">>, role |-> ROLE_USER,
           content |-> <<>>, timestamp |-> 10, chunkIndex |-> 1,
           totalChunks |-> 2, source |-> SOURCE_USER],
          MissingMetadata}

\* how the query request ended: answered 2xx, answered non-2xx, failed
QueryOutcomes == {"ok", "status", "error"}

InitHistory ==
    /\ ChunkIdle
    /\ StoreIdle
    /\ HandlerIdle
    /\ InitPineconeIdle
    /\ \E metadata \in SeqsUpTo(MatchMetadata, MaxMatches),
          outcome \in QueryOutcomes :
          /\ outcome # "ok" => metadata = <<>>
          /\ call = [fn     |-> "getConversationHistory",
                  args   |-> [outcome |-> outcome,
                              matches |->
                                 [k \in 1..Len(metadata) |->
                                     [id |-> k, metadata |-> metadata[k]]]],
                  result |-> <<>>,
                  pc     |-> "call"]

HistoryCall ==
    /\ call.fn = "getConversationHistory"
    /\ call.pc = "call"
    /\ call' = [call EXCEPT
                   !.result = getConversationHistory(
                                  pineconeQuery(call.args.outcome,
                                                call.args.matches)),
                   !.pc = "returned"]
    /\ UNCHANGED <<chunkVars, storeVars, handlerVars, initVars>>

NextHistory == HistoryCall

SpecHistory == InitHistory /\ [][NextHistory]_vars

-----------------------------------------------------------------------------
(* generateEmbedding.  VECTOR_DIMENSION is 1024 in the source and 4 here,  *)
(* so that texts shorter than, as long as and longer than the vector are   *)
(* within reach.  A component of the vector is kept as the list of the     *)
(* terms added to it: no term is the number 0, and the division by the     *)
(* magnitude, which keeps 0 at 0, is left out.                             *)

VECTOR_DIMENSION == 4

\* text.charCodeAt(i) for the characters of the texts of a direct call
CharCode(c) == IF c = "a" THEN 97 ELSE 98

\* i % VECTOR_DIMENSION
Position(i) == i % VECTOR_DIMENSION

\* (position + 1) % VECTOR_DIMENSION
NextPos(position) == (position + 1) % VECTOR_DIMENSION

\* a previous position that is not wrapped
PrevPosUnwrapped(position) == position - 1

\* (position - 1 + VECTOR_DIMENSION) % VECTOR_DIMENSION
PrevPos(position) == (position - 1 + VECTOR_DIMENSION) % VECTOR_DIMENSION

\* values[position] += term; an index outside the array writes no element
AddAt(values, position, term) ==
    IF position \in 0..(Len(values) - 1)
    THEN [values EXCEPT ![position + 1] = Append(@, term)]
    ELSE values

\* the loop over the characters; writes collects the three positions
\* written for each character
RECURSIVE EmbedLoop(_, _, _, _)
EmbedLoop(text, i, values, writes) ==
    IF i >= Len(text) THEN [values |-> values, writes |-> writes]
    ELSE LET charCode == CharCode(text[i + 1])
             position == Position(i)
             nextPos  == NextPos(position)
             prevPos  == PrevPos(position)
             v1 == AddAt(values, position,
                         [charCode |-> charCode, by |-> "sin", i |-> i])
             v2 == AddAt(v1, nextPos,
                         [charCode |-> charCode, by |-> "cos", i |-> i])
             v3 == AddAt(v2, prevPos,
                         [charCode |-> charCode, by |-> "tan", i |-> i])
         IN  EmbedLoop(text, i + 1, v3,
                       Append(writes, <<position, nextPos, prevPos>>))

\* Array(VECTOR_DIMENSION).fill(0), the loop, and the normalized vector
generateEmbedding(text) ==
    EmbedLoop(text, 0, [k \in 1..VECTOR_DIMENSION |-> <<>>], <<>>)

InitEmbedding ==
    /\ ChunkIdle
    /\ StoreIdle
    /\ HandlerIdle
    /\ InitPineconeIdle
    /\ \E text \in SeqsUpTo({"a", "b"}, MaxEmbedLen) :
          call = [fn     |-> "generateEmbedding",
                  args   |-> [text |-> text],
                  result |-> [values |-> <<>>, writes |-> <<>>],
                  pc     |-> "call"]

EmbeddingCall ==
    /\ call.fn = "generateEmbedding"
    /\ call.pc = "call"
    /\ call' = [call EXCEPT !.result = generateEmbedding(call.args.text),
                            !.pc = "returned"]
    /\ UNCHANGED <<chunkVars, storeVars, handlerVars, initVars>>

NextEmbedding == EmbeddingCall

SpecEmbedding == InitEmbedding /\ [][NextEmbedding]_vars

-----------------------------------------------------------------------------
(* One request served by a handler without a conversation store            *)
(* (src/unnamed/part_005, src/unnamed/part_001): the body is read, the     *)
(* timer armed and the completion call awaited inside one try block, with  *)
(* no inner catch around the call.                                         *)

InitPlainHandler ==
    /\ ChunkIdle
    /\ StoreIdle
    /\ InitPineconeIdle
    /\ CallIdle
    /\ hVariant = "plain"
    /\ hEnv = [pineconeKey |-> FALSE, resendKey |-> FALSE, emailTo |-> FALSE]
    /\ hReq \in Requests
    /\ hPc = "start"
    /\ hInitialized = FALSE
    /\ hConversationId = <<>>
    /\ hHistory = <<>>
    /\ hOutbound = NoOutbound
    /\ hTimer = "unset"
    /\ hFetch = "none"
    /\ hFetchCalls = 0
    /\ hStatus = 0
    /\ hResponse = NoResponse
    /\ hSave = NoSave
    /\ hEmail = NoEmail
    /\ hQuery = NoQuery
    /\ hInitCalls = 0

\* await req.json() rejects: the outer catch answers 500
PlainBadBody ==
    /\ hPc = "start"
    /\ hReq.method = "POST"
    /\ ~hReq.body.valid
    /\ CatchError("SyntaxError", JSON_ERROR)
    /\ UNCHANGED <<hVariant, hEnv, hReq, hInitialized, hConversationId,
                   hHistory, hOutbound, hTimer, hFetch, hFetchCalls, hStatus,
                   hSave, hQuery, hInitCalls, chunkVars, storeVars, initVars,
                   callVars>>

\* if (!prompt) answers 400
PlainNoPrompt ==
    /\ hPc = "start"
    /\ hReq.method = "POST"
    /\ hReq.body.valid
    /\ UserPrompt(hVariant, hReq.body) = <<>>
    /\ Answer(Response(400, "Prompt is required", <<>>, <<>>, FALSE))
    /\ UNCHANGED <<hVariant, hEnv, hReq, hInitialized, hConversationId,
                   hHistory, hOutbound, hTimer, hFetch, hFetchCalls, hStatus,
                   hSave, hEmail, hQuery, hInitCalls, chunkVars, storeVars,
                   initVars, callVars>>

\* messages = [{role: 'user', content: prompt}], the timer is armed and the
\* completion call issued
PlainStartFetch ==
    /\ hPc = "start"
    /\ hReq.method = "POST"
    /\ hReq.body.valid
    /\ UserPrompt(hVariant, hReq.body) # <<>>
    /\ hOutbound' = [mode     |-> "",
                     prompt   |-> UserPrompt(hVariant, hReq.body),
                     history  |-> <<>>,
                     messages |-> <<[role    |-> ROLE_USER,
                                     content |-> UserPrompt(hVariant,
                                                            hReq.body)]>>]
    /\ hTimer' = "armed"
    /\ hFetch' = "inflight"
    /\ hFetchCalls' = hFetchCalls + 1
    /\ hPc' = "fetch"
    /\ UNCHANGED <<hVariant, hEnv, hReq, hInitialized, hConversationId,
                   hHistory, hStatus, hResponse, hSave, hEmail, hQuery,
                   hInitCalls, chunkVars, storeVars, initVars, callVars>>

\* the completion call rejected with a network error: control goes from
\* the await straight to the outer catch, past clearTimeout(timeout)
PlainFetchRejects ==
    /\ hPc = "fetch"
    /\ hFetch = "inflight"
    /\ hFetch' = "failed"
    /\ CatchError("TypeError", FETCH_FAILED)
    /\ UNCHANGED <<hVariant, hEnv, hReq, hInitialized, hConversationId,
                   hHistory, hOutbound, hTimer, hFetchCalls, hStatus, hSave,
                   hQuery, hInitCalls, chunkVars, storeVars, initVars,
                   callVars>>

\* the timer that was left armed fires after the request was answered:
\* controller.abort() on a call that has settled changes nothing else
PlainLateTimerFires ==
    /\ hPc = "done"
    /\ hTimer = "armed"
    /\ hFetch # "inflight"
    /\ hTimer' = "fired"
    /\ UNCHANGED <<hVariant, hEnv, hReq, hPc, hInitialized, hConversationId,
                   hHistory, hOutbound, hFetch, hFetchCalls, hStatus,
                   hResponse, hSave, hEmail, hQuery, hInitCalls, chunkVars,
                   storeVars, initVars, callVars>>

NextPlainHandler ==
    \/ AnswerOptions
    \/ RejectMethod
    \/ PlainBadBody
    \/ PlainNoPrompt
    \/ PlainStartFetch
    \/ FetchResolvesOk
    \/ \E status \in UpstreamStatuses : FetchResolvesStatus(status)
    \/ PlainFetchRejects
    \/ TimerFires
    \/ PlainLateTimerFires
    \/ \E content \in {<<>>, CONTENT} : JsonRead(content)
    \/ JsonFails
    \/ \E errorText \in UpstreamErrorTexts : TextRead(errorText)
    \/ TextFails

SpecPlainHandler == InitPlainHandler /\ [][NextPlainHandler]_vars

-----------------------------------------------------------------------------
(* Claims about chunkText (specification SpecChunk) *)

\* c is one whole sentence of one section of text
IsSingleSentenceOf(c, text) ==
    \E i \in 1..Len(SplitSections(text)) :
        LET sentences == SplitSentences(SplitSections(text)[i])
        IN  \E j \in 1..Len(sentences) : sentences[j] = c

\* the text without its whitespace: what is left when the separators the
\* chunker removes and the separators it inserts are both dropped
StripSpace(s) == SelectSeq(s, LAMBDA c : ~IsSpace(c))

\* C1: every chunk chunkText returns has length <= maxChunkSize, except a
\* chunk that is one single sentence which alone is longer than maxChunkSize;
\* the join characters of a joined chunk count in its length.
C1_ChunkWithinMax ==
    ctPc = "returned" =>
        \A i \in 1..Len(ctChunks) :
            \/ Len(ctChunks[i]) <= ctMaxChunkSize
            \/ /\ IsSingleSentenceOf(ctChunks[i], ctText)
               /\ Len(ctChunks[i]) > ctMaxChunkSize

\* C2: the chunks, concatenated in output order, hold the content of the
\* text exactly once and in input order (no section or sentence is dropped,
\* duplicated or reordered): with the whitespace separators removed on both
\* sides, the concatenation equals the text.
C2_ChunksCoverTextOnce ==
    ctPc = "returned" =>
        StripSpace(Join(ctChunks, <<>>)) = StripSpace(ctText)

-----------------------------------------------------------------------------
(* Claims about the conversation store (specification SpecStore) *)

Roles == {ROLE_USER, ROLE_ASSISTANT}

\* the text a returned or running save chunked for a role
TextOf(s, role) == IF role = ROLE_USER THEN s.userInput ELSE s.aiResponse

\* save call p ran to its return on a store that stored every batch
SavedCleanly(p) ==
    /\ save[p].pc = "returned"
    /\ ~save[p].threw
    /\ ~save[p].upsertFailed

\* the message indexes of the result at hand that carry the role
MessagesOfRole(role) ==
    {k \in 1..Len(hist.messages) : hist.messages[k].role = role}

\* a history of conversation c is at hand, read by a query that was
\* answered, after save p of c returned with every batch stored, and no
\* other save wrote to c
SavedThenRetrieved(p) ==
    /\ hist.pc = "returned"
    /\ hist.queryOk
    /\ SavedCleanly(p)
    /\ hist.conversationId = save[p].conversationId
    /\ \A q \in SaveProcs \ {p} :
          save[q].pc = "idle" \/ save[q].conversationId # save[p].conversationId

\* C3: with a store that never fails and holds no other record of the
\* conversation, saveConversation followed by getConversationHistory
\* returns exactly one message per role of the turn, whose content is the
\* chunks of chunkText(text) joined with single spaces in chunk order
\* (stated for the texts that give at least one chunk; it is to hold also
\* when the turn has more chunks than the query's topK).
C3_SaveThenRetrieveRoundTrip ==
    \A p \in SaveProcs :
        ( /\ SavedThenRetrieved(p)
          /\ \A role \in Roles :
                chunkText(TextOf(save[p], role), DefaultMaxChunkSize) # <<>> )
        => /\ Len(hist.messages) = 2
           /\ \A role \in Roles :
                 /\ Cardinality(MessagesOfRole(role)) = 1
                 /\ \A k \in MessagesOfRole(role) :
                       hist.messages[k].content =
                           Join(chunkText(TextOf(save[p], role),
                                          DefaultMaxChunkSize), <<SP>>)

\* C4: saveConversation returns false whenever a stage of the save failed,
\* a failed pineconeUpsert of any batch included; it returns true only if
\* every batch was stored.
C4_SaveFalseOnFailure ==
    \A p \in SaveProcs :
        save[p].pc = "returned" =>
            (save[p].result <=> ~(save[p].threw \/ save[p].upsertFailed))

\* the records of one (conversationId, role, timestamp) triple have
\* pairwise distinct chunkIndex values in [0, totalChunks) and the same
\* totalChunks
TriplesConsistent(st) ==
    \A id1, id2 \in DOMAIN st :
        ( /\ st[id1].conversationId = st[id2].conversationId
          /\ st[id1].role = st[id2].role
          /\ st[id1].timestamp = st[id2].timestamp )
        => /\ st[id1].totalChunks = st[id2].totalChunks
           /\ st[id1].chunkIndex \in 0..(st[id1].totalChunks - 1)
           /\ (id1 # id2 => st[id1].chunkIndex # st[id2].chunkIndex)

\* C6: across any interleaving of saveConversation calls every stored
\* record keeps the content it was created with, and after every step the
\* records of each (conversationId, role, timestamp) triple have distinct
\* chunkIndex values in [0, totalChunks) and one totalChunks.
C6_RecordsKeepContent ==
    [][ /\ \A id \in DOMAIN store :
              id \in DOMAIN store' /\ store'[id] = store[id]
        /\ TriplesConsistent(store') ]_vars

\* two saves of the conversation of the history at hand ran one after the
\* other, both to their return with every batch stored, before the query
TwoSequentialSavesRetrieved ==
    /\ hist.pc = "returned"
    /\ hist.queryOk
    /\ \A p \in SaveProcs :
          SavedCleanly(p) /\ save[p].conversationId = hist.conversationId
    /\ \E p \in SaveProcs : save[p].after # {}

\* C7: after two sequential saves of one conversation on a non-failing
\* store, getConversationHistory returns the messages in non-decreasing
\* timestamp order, each user message before the assistant message of its
\* own turn; the assistant records of a save carry T+1 where its user
\* records carry T.
C7_HistoryInTimestampOrder ==
    /\ \A p \in SaveProcs : \A k \in 1..Len(save[p].vectors) :
          save[p].vectors[k].metadata.timestamp =
              IF save[p].vectors[k].metadata.role = ROLE_USER
              THEN save[p].currentTime ELSE save[p].currentTime + 1
    /\ TwoSequentialSavesRetrieved =>
          /\ \A i, j \in 1..Len(hist.messages) :
                i < j => hist.messages[i].timestamp <= hist.messages[j].timestamp
          /\ \A p \in SaveProcs : \A i, j \in 1..Len(hist.messages) :
                ( /\ hist.messages[i].role = ROLE_USER
                  /\ hist.messages[i].timestamp = save[p].currentTime
                  /\ hist.messages[j].role = ROLE_ASSISTANT
                  /\ hist.messages[j].timestamp = save[p].currentTime + 1 )
                => i < j

\* C7 witness: both turns are in the history, four messages
C7_Witness ==
    /\ TwoSequentialSavesRetrieved
    /\ Len(hist.messages) = 4

\* C8: the records saveConversation builds for one role of a turn all carry
\* totalChunks = Len(chunkText(text)); their chunkIndex values are exactly
\* 0..totalChunks-1, each once; record i holds chunk i and has the id
\* conversationId-role-timestamp-i.
C8_RecordsNumberTheChunks ==
    \A p \in SaveProcs :
        (save[p].pc # "idle" /\ ~save[p].threw) =>
            \A role \in Roles :
                LET v      == save[p].vectors
                    chunks == chunkText(TextOf(save[p], role),
                                        DefaultMaxChunkSize)
                    K      == {k \in 1..Len(v) : v[k].metadata.role = role}
                IN  /\ Cardinality(K) = Len(chunks)
                    /\ {v[k].metadata.chunkIndex : k \in K}
                          = 0..(Len(chunks) - 1)
                    /\ \A k \in K :
                          /\ v[k].metadata.totalChunks = Len(chunks)
                          /\ v[k].metadata.content
                                = chunks[v[k].metadata.chunkIndex + 1]
                          /\ v[k].id = Join(<<save[p].conversationId, role,
                                              ToStr(v[k].metadata.timestamp),
                                              ToStr(v[k].metadata.chunkIndex)>>,
                                            <<"-">>)

\* C8 witness: a save built the records of a turn of three user chunks and
\* two assistant chunks
C8_Witness ==
    \E p \in SaveProcs :
        /\ save[p].pc # "idle"
        /\ Len(chunkText(save[p].userInput, DefaultMaxChunkSize)) = 3
        /\ Len(chunkText(save[p].aiResponse, DefaultMaxChunkSize)) = 2
        /\ Len(save[p].vectors) = 5

-----------------------------------------------------------------------------
(* Claims about the completion handlers                                    *)

\* C5: in every handler variant that persists conversations, the 200
\* response is sent without waiting for saveConversation: whenever the save
\* of the request is in flight, the 200 response is out already.
C5_RespondsWithoutAwaitingSave ==
    hSave.pc = "inflight" => hResponse.status = 200

\* C9: when the timer has fired with the completion call in flight, the
\* call is cancelled and the response is 504 {error: "Request timeout"}; and
\* a 504 response means the timer fired: the call was cancelled, it was not
\* answered with a status and did not fail otherwise.
C9_TimeoutGives504 ==
    /\ hTimer = "fired" =>
          /\ hFetch = "aborted"
          /\ hResponse = Response(504, "Request timeout", <<>>, <<>>, FALSE)
    /\ hResponse.status = 504 =>
          /\ hTimer = "fired"
          /\ hFetch = "aborted"

C9_Witness ==
    /\ hTimer = "fired"
    /\ hPc = "done"
    /\ hResponse.status = 504
    /\ hInitialized

\* the request was answered after the provider's non-2xx answer
AnsweredUpstreamStatus ==
    /\ HasFailureEmail(hVariant)
    /\ hPc = "done"
    /\ hFetch = "status"

\* C10 as stated: a non-2xx status s of the provider gives a 500 response
\* whose details contain the decimal s, and exactly one email send.
C10_StatusGives500AndOneSend ==
    AnsweredUpstreamStatus =>
        /\ hResponse.status = 500
        /\ Includes(hResponse.details, ToStr(hStatus))
        /\ hEmail.sends = 1

\* C10 amended: a non-2xx status s of the provider whose body was read
\* gives a 500 response whose details contain the decimal s, and exactly
\* one call of sendFailureEmail, which attempts one send when RESEND_API_KEY
\* and NOTIFICATION_EMAIL_TO are both set and none otherwise.
C10_StatusGives500AndOneNotification ==
    AnsweredUpstreamStatus =>
        /\ hResponse.status = 500
        /\ hResponse.error = "Internal server error"
        /\ Includes(hResponse.details, ToStr(hStatus))
        /\ hEmail.calls = 1
        /\ hEmail.sends = IF hEnv.resendKey /\ hEnv.emailTo THEN 1 ELSE 0

C10_Witness ==
    /\ AnsweredUpstreamStatus
    /\ hStatus = 404
    /\ hEmail.sends = 1
    /\ hResponse.status = 500

\* the substrings C11 names
C11_Keywords ==
    {<<"a", "p", "i", SP, "e", "r", "r", "o", "r">>,
     <<"m", "o", "d", "e", "l", SP, "n", "o", "t", SP, "f", "o", "u", "n",
       "d">>,
     <<"4", "0", "4">>, <<"5", "0", "0">>, <<"5", "0", "3">>,
     <<"4", "0", "1">>}

\* C11: at most one email send is attempted per request, and one is
\* attempted only for a request answered 500 whose lowercased error message
\* (the details of the response) contains one of the six substrings; a
\* request answered 200, 400, 405 or 504 attempts none.
C11_EmailOnlyForNotifiableError ==
    /\ hEmail.sends <= 1
    /\ hEmail.sends >= 1 =>
          /\ hResponse.status = 500
          /\ \E keyword \in C11_Keywords :
                Includes(ToLowerCase(hResponse.details), keyword)
    /\ hResponse.status \in {200, 400, 405, 504} => hEmail.sends = 0

C11_Witness ==
    /\ hEmail.sends = 1
    /\ hResponse.status = 500
    /\ hStatus = 429
    /\ ~Includes(hResponse.details, <<"a", "p", "i", SP, "e", "r", "r", "o", "r">>)

\* the responses that the request and the outcome of the completion call
\* allow, whatever the vector store did
ResponsesByRequestAndCompletion ==
    IF hReq.method = "OPTIONS"
    THEN {Response(200, "", <<>>, <<>>, FALSE)}
    ELSE IF hReq.method # "POST"
    THEN {Response(405, "Method not allowed", <<>>, <<>>, FALSE)}
    ELSE IF ~hReq.body.valid
    THEN {Response(500, "Internal server error", d, <<>>, FALSE) :
             d \in {NO_BODY_ERROR, JSON_ERROR}}
    ELSE IF UserPrompt(hVariant, hReq.body) = <<>>
    THEN {Response(400, "Prompt is required", <<>>, <<>>, FALSE)}
    ELSE IF hFetch = "ok"
    THEN {Response(200, "", <<>>, ConversationIdOf(hReq.body), TRUE)}
    ELSE IF hFetch = "status"
    THEN {Response(500, "Internal server error",
                   ApiErrorMessage(hStatus, t), <<>>, FALSE) :
             t \in UpstreamErrorTexts}
    ELSE IF hFetch = "failed"
    THEN {Response(500, "Internal server error", d, <<>>, FALSE) :
             d \in {FETCH_FAILED, JSON_ERROR, BODY_FAILED}}
    ELSE IF hFetch = "aborted"
    THEN {Response(504, "Request timeout", <<>>, <<>>, FALSE)}
    ELSE {}

\* C12: a failure of the vector store does not change the response: with
\* the store disabled or the history query failed the completion request is
\* built from the empty history, a save with a failed stage leaves the 200
\* response, and every response is one that the request and the outcome of
\* the completion call determine.
C12_StoreFailuresAbsorbed ==
    /\ (hFetchCalls >= 1 /\ (~hInitialized \/ hQuery.failed)) =>
          /\ hHistory = <<>>
          /\ hOutbound.history = <<>>
    /\ (hSave.pc = "returned" /\ hSave.failed /\ hPc = "done") =>
          hResponse.status = 200
    /\ hPc = "done" => hResponse \in ResponsesByRequestAndCompletion

C12_Witness ==
    /\ hPc = "done"
    /\ hQuery.failed
    /\ hSave.failed
    /\ hResponse.status = 200
    /\ hVariant = "edge"

\* C13: in every completions handler a POST whose body was read is answered
\* 400 {error: "Prompt is required"} exactly when neither body.prompt nor
\* body.messages[0].content is a non-empty value; with no prompt and a
\* non-empty messages[0].content the completion call is issued.
C13_PromptRequiredRule ==
    (hPc = "done" /\ hReq.method = "POST" /\ hReq.body.valid) =>
        /\ hResponse = Response(400, "Prompt is required", <<>>, <<>>, FALSE)
              <=> (hReq.body.prompt = <<>> /\ hReq.body.message0 = <<>>)
        /\ (hReq.body.prompt = <<>> /\ hReq.body.message0 # <<>>) =>
              hFetchCalls = 1

\* C14: a request makes at most one completion call, whatever the outcome
\* of the call (non-2xx status, network error, timeout, success), and makes
\* one only when it is a POST with a prompt.
C14_SingleCompletionCall ==
    /\ hFetchCalls <= 1
    /\ hFetch \in {"inflight", "ok", "status", "failed", "aborted"} =>
          hFetchCalls = 1
    /\ hFetchCalls = 1 =>
          /\ hReq.method = "POST"
          /\ hReq.body.valid
          /\ UserPrompt(hVariant, hReq.body) # <<>>

C14_Witness ==
    /\ hPc = "done"
    /\ hFetch \in {"status", "failed", "aborted"}
    /\ hFetchCalls = 1
    /\ hResponse.status \in {500, 504}

-----------------------------------------------------------------------------
(* Claims about initPinecone of the edge handler                           *)

AttemptsAndBackoffBounded ==
    /\ ip.attempt <= 3
    /\ Len(ip.outcomes) <= 3
    /\ Len(ip.backoffs) <= 2
    /\ \A k \in 1..Len(ip.backoffs) :
          /\ ip.backoffs[k] = 1000 * k
          /\ ip.outcomes[k] = "failed"
    /\ Len(ip.backoffs) = IF ip.pc = "backoff" THEN ip.attempt
                          ELSE IF ip.attempt = 0 THEN 0 ELSE ip.attempt - 1
    /\ ip.pc = "returned" =>
          /\ ip.result \in BOOLEAN
          /\ ~ip.apiKey => (~ip.result /\ ip.attempt = 0)
          /\ ip.apiKey =>
                /\ Len(ip.outcomes) = ip.attempt
                /\ ip.result <=> ip.outcomes[ip.attempt] = "ok"
                /\ \A k \in 1..(ip.attempt - 1) : ip.outcomes[k] = "failed"

\* C15: initPinecone of the edge handler makes at most 3 attempts, waits
\* 1000 * k ms after failed attempt k before attempt k + 1 and nothing after
\* a third failure, and always returns a boolean: true from the first
\* attempt that succeeds, false when every attempt it made has failed.
C15_BoundedAttemptsAndReturn ==
    []AttemptsAndBackoffBounded /\ <>(ip.pc = "returned")

C15_Witness ==
    /\ ip.pc = "returned"
    /\ ip.attempt = 3
    /\ ~ip.result
    /\ ip.backoffs = <<1000, 2000>>
    /\ ip.outcomes = <<"failed", "failed", "failed">>

-----------------------------------------------------------------------------
(* Claims about the prompt builders                                        *)

\* C16: for every history h and prompt p, createChatSystemPrompt returns
\* min(10, |h|) + 2 messages: first the fixed instruction message, last
\* {role: user, content: p}, and between them the last min(10, |h|) messages
\* of h in their order, each with its role and content and nothing else.
C16_ChatPromptShape ==
    (call.fn = "createChatSystemPrompt" /\ call.pc = "returned") =>
        LET h == call.args.history
            r == call.result
            n == IF Len(h) < 10 THEN Len(h) ELSE 10
        IN  /\ Len(r) = n + 2
            /\ r[1] = SYSTEM_MESSAGE
            /\ r[Len(r)] = [role |-> ROLE_USER,
                            content |-> call.args.userPrompt]
            /\ \A k \in 1..n :
                  r[k + 1] = [role    |-> h[Len(h) - n + k].role,
                              content |-> h[Len(h) - n + k].content]

C16_Witness ==
    /\ call.fn = "createChatSystemPrompt"
    /\ call.pc = "returned"
    /\ Len(call.args.history) = 11
    /\ Len(call.result) = 12
    /\ call.args.history[1] # call.args.history[11]

\* C17: the response to a successful request carries a conversationId: the
\* one of the body when the body has one, the generated one otherwise; the
\* history query and the save of the request use the same id.
C17_ConversationIdCarried ==
    (hReq.method = "POST" /\ hResponse.status = 200) =>
        LET id == IF hReq.body.conversationId # <<>>
                  THEN hReq.body.conversationId ELSE GeneratedId
        IN  /\ hResponse.conversationId = id
            /\ hQuery.calls >= 1 => hQuery.conversationId = id
            /\ hSave.calls >= 1 => hSave.conversationId = id

C17_Witness ==
    /\ hReq.method = "POST"
    /\ hResponse.status = 200
    /\ hReq.body.conversationId = <<"c", "1">>
    /\ hResponse.conversationId = <<"c", "1">>
    /\ hQuery.calls = 1
    /\ hSave.calls = 1

\* C18: a request without a mode is served in command mode: the completion
\* request carries exactly one message, of role user, whose content is
\* built by createCommandSystemPrompt; the chat message sequence is sent
\* only when the mode of the body is "chat".
C18_CommandModeByDefault ==
    hFetchCalls >= 1 =>
        /\ hReq.body.mode # "chat" =>
              /\ Len(hOutbound.messages) = 1
              /\ hOutbound.messages[1].role = ROLE_USER
              /\ hVariant = "api" =>
                    hOutbound.messages[1].content =
                        createCommandSystemPrompt(hReq.body.prompt, hHistory)
        /\ hOutbound.messages[1] = SYSTEM_MESSAGE => hReq.body.mode = "chat"

C18_Witness ==
    /\ hFetchCalls = 1
    /\ hVariant = "api"
    /\ hReq.body.mode = ""
    /\ Len(hHistory) = 2
    /\ Len(hOutbound.messages) = 1

-----------------------------------------------------------------------------
(* Claims about the batches of a save                                      *)

\* the records of a sequence of batches, one after the other
RECURSIVE Flatten(_)
Flatten(batches) ==
    IF batches = <<>> THEN <<>> ELSE Head(batches) \o Flatten(Tail(batches))

\* C19: every pineconeUpsert call of a save is given at most BATCH_SIZE
\* records; the calls made so far carry the first records built, each
\* once and in build order (the user chunks, then the assistant chunks),
\* and all of them once the save has returned; a save that built no record
\* makes no call.
C19_BatchesCoverVectorsOnce ==
    \A p \in SaveProcs :
        LET s    == save[p]
            sent == Flatten(s.batches)
        IN  /\ \A k \in 1..Len(s.batches) :
                  Len(s.batches[k]) >= 1 /\ Len(s.batches[k]) <= BATCH_SIZE
            /\ Len(sent) <= Len(s.vectors)
            /\ sent = SubSeq(s.vectors, 1, Len(sent))
            /\ s.pc = "returned" => sent = s.vectors
            /\ s.vectors = <<>> => s.batches = <<>>
            /\ \A i, j \in 1..Len(s.vectors) :
                  (i < j /\ s.vectors[j].metadata.role = ROLE_USER) =>
                      s.vectors[i].metadata.role = ROLE_USER

C19_Witness ==
    /\ save["s1"].pc = "returned"
    /\ Len(save["s1"].vectors) = 5
    /\ Len(save["s1"].batches) = 2
    /\ save["s2"].pc = "idle"

C19_WitnessNoRecord ==
    /\ save["s1"].pc = "returned"
    /\ save["s1"].result
    /\ save["s1"].vectors = <<>>

-----------------------------------------------------------------------------
(* Claims about the reconstruction of getConversationHistory               *)

\* the positions of the usable matches of the pair <<role, timestamp>>, in
\* arrival order
RECURSIVE PositionsOf(_, _, _)
PositionsOf(matches, pair, i) ==
    IF i > Len(matches) THEN <<>>
    ELSE LET md == matches[i].metadata
         IN  IF md.role # <<>> /\ md.content # <<>>
                /\ <<md.role, md.timestamp>> = pair
             THEN <<i>> \o PositionsOf(matches, pair, i + 1)
             ELSE PositionsOf(matches, pair, i + 1)

\* content is the chunks of the pair, joined in ascending chunkIndex order
ContentInChunkOrder(matches, pair, content) ==
    LET at == PositionsOf(matches, pair, 1)
        n  == Len(at)
    IN  \E f \in [1..n -> 1..n] :
            /\ \A a, b \in 1..n : a # b => f[a] # f[b]
            /\ \A a \in 1..(n - 1) :
                  matches[at[f[a]]].metadata.chunkIndex
                     <= matches[at[f[a + 1]]].metadata.chunkIndex
            /\ content = Join([a \in 1..n |->
                                  matches[at[f[a]]].metadata.content], <<SP>>)

\* C20: whatever matches the query returned and in whatever order,
\* getConversationHistory returns one message per (role, timestamp) pair of
\* the usable matches, with the role and timestamp of the pair and the
\* pair's chunks joined in ascending chunkIndex order, and returns the
\* messages in non-decreasing timestamp order.
C20_OneMessagePerRoleAndTimestamp ==
    (call.fn = "getConversationHistory" /\ call.pc = "returned") =>
        LET matches == call.args.matches
            r       == call.result
            pairs   == {<<matches[i].metadata.role,
                          matches[i].metadata.timestamp>> :
                           i \in {j \in 1..Len(matches) :
                                     /\ matches[j].metadata.role # <<>>
                                     /\ matches[j].metadata.content # <<>>}}
        IN  /\ Len(r) = Cardinality(pairs)
            /\ \A pair \in pairs :
                  \E k \in 1..Len(r) :
                      /\ r[k].role = pair[1]
                      /\ r[k].timestamp = pair[2]
                      /\ ContentInChunkOrder(matches, pair, r[k].content)
            /\ \A k \in 1..(Len(r) - 1) : r[k].timestamp <= r[k + 1].timestamp

C20_Witness ==
    /\ call.fn = "getConversationHistory"
    /\ call.pc = "returned"
    /\ Len(call.args.matches) = 3
    /\ call.args.matches[1].metadata.timestamp = 10
    /\ call.args.matches[1].metadata.chunkIndex = 1
    /\ call.args.matches[2].metadata.chunkIndex = 0
    /\ Len(call.result) = 2
    /\ call.result[2].content = <<"a", SP, "b">>

\* the usable matches of a query answer
UsablePositions(matches) ==
    {i \in 1..Len(matches) :
        /\ matches[i].metadata # MissingMetadata
        /\ matches[i].metadata.role # <<>>
        /\ matches[i].metadata.content # <<>>}

\* C21: getConversationHistory always returns: the empty history when the
\* query failed, was answered non-2xx or had no match, and otherwise
\* messages built from the matches that have metadata, role and content
\* alone, as many as these matches have (role, timestamp) pairs; the other
\* matches are skipped without a trace.
C21_HistoryNeverFails ==
    (call.fn = "getConversationHistory" /\ call.pc = "returned") =>
        LET matches == call.args.matches
            r       == call.result
            usable  == UsablePositions(matches)
        IN  /\ (call.args.outcome # "ok" \/ usable = {}) => r = <<>>
            /\ Len(r) = Cardinality({<<matches[i].metadata.role,
                                       matches[i].metadata.timestamp>> :
                                        i \in usable})
            /\ \A k \in 1..Len(r) :
                  \E i \in usable :
                      /\ r[k].role = matches[i].metadata.role
                      /\ r[k].timestamp = matches[i].metadata.timestamp
                      /\ ContentInChunkOrder(matches,
                             <<r[k].role, r[k].timestamp>>, r[k].content)

C21_Witness ==
    /\ call.fn = "getConversationHistory"
    /\ call.pc = "returned"
    /\ Len(call.args.matches) = 3
    /\ call.args.matches[1].metadata = MissingMetadata
    /\ call.args.matches[2].metadata.role = ROLE_USER
    /\ call.args.matches[2].metadata.content = <<>>
    /\ Len(call.result) = 1

C21_WitnessQueryFailed ==
    /\ call.fn = "getConversationHistory"
    /\ call.pc = "returned"
    /\ call.args.outcome = "error"
    /\ call.result = <<>>

-----------------------------------------------------------------------------
(* Further claims about chunkText (specification SpecChunk)                *)

\* C22: chunkText returns no chunk for the empty string, and for no text,
\* a text of blank lines included, does it return an empty chunk.
C22_NoEmptyChunk ==
    ctPc = "returned" =>
        /\ ctText = <<>> => ctChunks = <<>>
        /\ \A i \in 1..Len(ctChunks) : ctChunks[i] # <<>>

C22_Witness ==
    /\ ctPc = "returned"
    /\ ctText = <<NL, NL, NL>>
    /\ ctChunks = <<>>

C22_WitnessEmpty ==
    /\ ctPc = "returned"
    /\ ctText = <<>>
    /\ ctChunks = <<>>

-----------------------------------------------------------------------------
(* Claims about generateEmbedding (specification SpecEmbedding)            *)

\* C23: for a text that is empty, shorter than, as long as or longer than
\* the vector, generateEmbedding returns exactly VECTOR_DIMENSION
\* components; the positions written for character i are i mod D,
\* (i + 1) mod D and (i - 1 + D) mod D, all within [0, D), and every term
\* lands in the vector; the vector of the empty text is all zero.
C23_EmbeddingShape ==
    (call.fn = "generateEmbedding" /\ call.pc = "returned") =>
        LET text   == call.args.text
            values == call.result.values
            writes == call.result.writes
            D      == VECTOR_DIMENSION
        IN  /\ Len(values) = D
            /\ Len(writes) = Len(text)
            /\ \A i \in 0..(Len(text) - 1) :
                  /\ writes[i + 1] = <<i % D, (i + 1) % D, (i - 1 + D) % D>>
                  /\ \A k \in 1..3 : writes[i + 1][k] \in 0..(D - 1)
                  /\ \E t \in 1..Len(values[(i % D) + 1]) :
                        /\ values[(i % D) + 1][t].i = i
                        /\ values[(i % D) + 1][t].by = "sin"
                  /\ \E t \in 1..Len(values[((i - 1 + D) % D) + 1]) :
                        /\ values[((i - 1 + D) % D) + 1][t].i = i
                        /\ values[((i - 1 + D) % D) + 1][t].by = "tan"
            /\ text = <<>> => \A k \in 1..D : values[k] = <<>>

C23_Witness ==
    /\ call.fn = "generateEmbedding"
    /\ call.pc = "returned"
    /\ Len(call.args.text) = VECTOR_DIMENSION + 2
    /\ call.result.writes[1] = <<0, 1, VECTOR_DIMENSION - 1>>
    /\ call.result.writes[VECTOR_DIMENSION + 1] = <<0, 1, VECTOR_DIMENSION - 1>>

C23_WitnessEmpty ==
    /\ call.fn = "generateEmbedding"
    /\ call.pc = "returned"
    /\ call.args.text = <<>>
    /\ Len(call.result.values) = VECTOR_DIMENSION

-----------------------------------------------------------------------------
(* Further claims about the completion handlers                            *)

ResponseStatusRules ==
    /\ hPc # "done" => hResponse = NoResponse
    /\ hPc = "done" =>
          /\ hResponse.status \in {200, 400, 405, 500, 504}
          /\ hReq.method = "OPTIONS" => hResponse.status = 200
          /\ hReq.method \notin {"OPTIONS", "POST"} => hResponse.status = 405
    /\ hReq.method # "POST" =>
          /\ hPc \in {"start", "done"}
          /\ ~hInitialized
          /\ hConversationId = <<>>

C25_RejectedWithoutOutboundCall ==
    (hPc = "done" /\ hResponse.status \in {400, 405}) =>
        /\ hInitCalls = 0
        /\ hQuery.calls = 0
        /\ hSave.calls = 0
        /\ hFetchCalls = 0
        /\ hEmail.sends = 0
        /\ hTimer = "unset"

\* the edge handler awaits initPinecone before it reads the body: a POST with
\* no prompt is answered 400 after the index listing was requested
C25_EdgeRejectsBeforeListing ==
    ~(/\ hPc = "done"
      /\ hResponse.status = 400
      /\ hVariant = "edge"
      /\ hEnv.pineconeKey
      /\ hInitCalls >= 1)

\* ---------------------------------------------------------------------------
\* C26: a handler that arms the timeout timer clears it on every path that
\* leaves the completion call (resolved 2xx, resolved non-2xx, rejected with
\* a network error): a call that has settled leaves no armed timer, no
\* armed timer outlives the request, and the timer fires on a call in
\* flight only.
C26_TimerClearedOnEveryPath ==
    /\ hFetch \in {"ok", "status", "failed"} => hTimer = "cleared"
    /\ hPc = "done" => hTimer # "armed"
    /\ hTimer = "fired" => hFetch = "aborted"

\* the handler without an inner catch has answered 500 for a network error
\* and its timer is still armed
C26_ArmedTimerOutlivesRequest ==
    ~(/\ hVariant = "plain"
      /\ hPc = "done"
      /\ hResponse.status = 500
      /\ hFetch = "failed"
      /\ hResponse.details = FETCH_FAILED
      /\ hTimer = "armed")

\* the timer fires after the completion call has settled
C26_TimerFiresAfterSettled ==
    ~(hTimer = "fired" /\ hFetch = "failed")

\* ---------------------------------------------------------------------------
\* C27: saveConversation is invoked at most once per request; when it is
\* invoked the store is initialized, the completion content is non-empty
\* and the request ends in 200 (it is answered 200, or the edge handler is
\* awaiting the save it will answer 200 after); a request answered 400,
\* 405, 500 or 504 has invoked no save.
C27_SaveOnlyForAnswered200 ==
    /\ hSave.calls <= 1
    /\ hSave.calls = 1 =>
          /\ hInitialized
          /\ hSave.aiResponse # <<>>
          /\ hFetch = "ok"
          /\ \/ hPc = "done" /\ hResponse.status = 200
             \/ /\ hPc = "save" /\ hSave.pc = "inflight"
                /\ AwaitsSave(hVariant) /\ hResponse = NoResponse
    /\ (hPc = "done" /\ hResponse.status \in {400, 405, 500, 504}) =>
          hSave = NoSave

\* the edge handler has awaited the save and answered 200
C27_Witness ==
    /\ hVariant = "edge"
    /\ hPc = "done"
    /\ hResponse.status = 200
    /\ hSave.calls = 1
    /\ hSave.pc = "returned"
    /\ hSave.aiResponse = CONTENT

\* the api handler has answered 200 while its save is still running
C27_WitnessNonBlocking ==
    /\ hVariant = "api"
    /\ hPc = "done"
    /\ hResponse.status = 200
    /\ hSave.calls = 1
    /\ hSave.pc = "inflight"

\* ---------------------------------------------------------------------------
\* message k of the history at hand is the whole text of one role of a
\* turn saved to the conversation: all chunks of the text, joined
MessageComplete(k) ==
    \E p \in SaveProcs :
        /\ save[p].pc # "idle"
        /\ ~save[p].threw
        /\ save[p].conversationId = hist.conversationId
        /\ hist.messages[k].timestamp =
              IF hist.messages[k].role = ROLE_USER
              THEN save[p].currentTime ELSE save[p].currentTime + 1
        /\ hist.messages[k].content =
              Join(chunkText(TextOf(save[p], hist.messages[k].role),
                             DefaultMaxChunkSize), <<SP>>)

\* C28: every message getConversationHistory returns is complete, built
\* from all totalChunks chunks of its turn, also when the retrieve runs
\* between two upsert batches of a save and when the conversation holds
\* more records than the query's topK.
C28_ReturnedMessagesComplete ==
    (hist.pc = "returned" /\ hist.queryOk) =>
        \A k \in 1..Len(hist.messages) : MessageComplete(k)

\* a retrieve between the first and the second upsert batch of the only
\* save returns a message that lacks the chunks of the second batch
C28_RetrieveBetweenBatches ==
    ~(/\ hist.pc = "returned"
      /\ hist.queryOk
      /\ save["s1"].pc = "upsert"
      /\ save["s1"].i = BATCH_SIZE
      /\ ~save["s1"].upsertFailed
      /\ save["s2"].pc = "idle"
      /\ \E k \in 1..Len(hist.messages) : ~MessageComplete(k))

\* a retrieve after the only save stored more records than topK returns a
\* message that lacks a chunk
C28_MoreRecordsThanTopK ==
    ~(/\ SavedThenRetrieved("s1")
      /\ save["s2"].pc = "idle"
      /\ Len(save["s1"].vectors) > TopK
      /\ \E k \in 1..Len(hist.messages) : ~MessageComplete(k))

\* ---------------------------------------------------------------------------
\* message k of the history at hand is the message of `role` of the turn
\* save p stored
TurnMessageAt(p, role, k) ==
    /\ hist.messages[k].role = role
    /\ hist.messages[k].timestamp =
          IF role = ROLE_USER
          THEN save[p].currentTime ELSE save[p].currentTime + 1
    /\ hist.messages[k].content =
          Join(chunkText(TextOf(save[p], role), DefaultMaxChunkSize), <<SP>>)

\* save p returned before save q started, both stored a user and an
\* assistant text in the conversation of the history at hand
FirstThenSecondRetrieved(p, q) ==
    /\ TwoSequentialSavesRetrieved
    /\ p # q
    /\ p \in save[q].after
    /\ \A r \in {p, q} : \A role \in Roles :
          chunkText(TextOf(save[r], role), DefaultMaxChunkSize) # <<>>

\* C29: for two saves of one conversation, the first returned before the
\* second started, getConversationHistory returns both messages of the
\* first turn before both messages of the second turn, whatever the two
\* clock readings T1 <= T2 and the order of the matches.
C29_FirstTurnBeforeSecondTurn ==
    \A p, q \in SaveProcs :
        FirstThenSecondRetrieved(p, q) =>
            \A role1, role2 \in Roles :
                \E i, j \in 1..Len(hist.messages) :
                    /\ i < j
                    /\ TurnMessageAt(p, role1, i)
                    /\ TurnMessageAt(q, role2, j)

\* T2 = T1: the records of the second turn have the ids of the first and
\* replace them, and the history has two messages, not four
C29_SameClockReading ==
    ~(/\ FirstThenSecondRetrieved("s1", "s2")
      /\ save["s2"].currentTime = save["s1"].currentTime
      /\ Len(save["s1"].vectors) = 2
      /\ Len(hist.messages) = 2
      /\ TurnMessageAt("s2", ROLE_USER, 1)
      /\ TurnMessageAt("s2", ROLE_ASSISTANT, 2))

\* T2 = T1 + 1: the assistant message of the first turn and the user
\* message of the second carry the same timestamp, and the order of the
\* matches puts the second user message first
C29_NextClockReading ==
    ~(/\ FirstThenSecondRetrieved("s1", "s2")
      /\ save["s2"].currentTime = save["s1"].currentTime + 1
      /\ Len(save["s1"].vectors) = 2
      /\ Len(hist.messages) = 4
      /\ \E i, j \in 1..Len(hist.messages) :
            /\ i < j
            /\ TurnMessageAt("s2", ROLE_USER, i)
            /\ TurnMessageAt("s1", ROLE_ASSISTANT, j))

\* ---------------------------------------------------------------------------
\* C30: in initPinecone of the edge handler an attempt whose listing is
\* empty (a failed listing call included) is never retried: it makes one
\* create call and the run returns the outcome of that call, true after
\* the index wait when the index was created and false when not; a further
\* attempt follows only an attempt whose listing was non-empty, lacked the
\* configured index and whose create call failed; a run makes at most
\* RETRY_ATTEMPTS listing calls and at most RETRY_ATTEMPTS create calls.
C30_EmptyListingNotRetried ==
    LET n == Len(ip.listings) IN
    /\ ip.listCalls <= RETRY_ATTEMPTS
    /\ ip.createCalls <= RETRY_ATTEMPTS
    /\ ip.createCalls <= n
    /\ \A k \in 1..(n - 1) :
          /\ ip.listings[k] # {}
          /\ PINECONE_INDEX_NAME \notin ip.listings[k]
          /\ ip.outcomes[k] = "failed"
    /\ (n >= 1 /\ ip.listings[n] = {}) =>
          /\ ip.pc \in {"createOnce", "indexWait", "returned"}
          /\ ip.createCalls = n
          /\ ip.listCalls = n
          /\ ip.pc = "returned" =>
                /\ ip.result <=> (ip.waits # <<>>
                                  /\ ip.waits[Len(ip.waits)] = INDEX_WAIT)
                /\ ip.backoffs = SubSeq(ip.waits, 1, n - 1)
                /\ Len(ip.outcomes) = n

\* the listing call failed, the one create call failed, and the run
\* returned false after one attempt
C30_Witness ==
    /\ ip.pc = "returned"
    /\ ip.listings = <<{}>>
    /\ ip.listFailed
    /\ ip.createCalls = 1
    /\ ip.listCalls = 1
    /\ ~ip.result

\* three attempts, each with a non-empty listing that lacks the index and
\* a failed create call
C30_WitnessThreeAttempts ==
    /\ ip.pc = "returned"
    /\ ip.listCalls = RETRY_ATTEMPTS
    /\ ip.createCalls = RETRY_ATTEMPTS
    /\ ~ip.result

\* an empty listing on the second attempt, whose create call succeeds
C30_WitnessEmptyAfterRetry ==
    /\ ip.pc = "returned"
    /\ Len(ip.listings) = 2
    /\ ip.listings[2] = {}
    /\ ip.result

====
